---- MODULE Spec2Model ----
(***************************************************************************)
(* Model of the nexus-backend music library server: the JSON-file backed   *)
(* track and playlist stores (src/models/trackStore.js), the playlist and  *)
(* track HTTP routes (src/routes/playlists.js, src/unnamed/part_003), the  *)
(* playlist import script (src/unnamed/part_000) and the range-addressable *)
(* stream endpoint.                                                        *)
(***************************************************************************)
EXTENDS Integers, Sequences, FiniteSets, TLC

VARIABLES
  tracks,      \* contents of data/tracks.json: a sequence of track records
  playlists,   \* contents of data/playlists.json: a sequence of playlist records
  imports,     \* POST /tracks/import requests suspended at the download await
  script,      \* the import script process: its position and in-memory copies
  files,       \* names present in the songs directory, with their sizes
  now,         \* the wall clock read by new Date()
  res,         \* the last request served and the response it got
  before,      \* history: the playlists file as the last request found it
  disk,        \* the backing JSON files as a store loader's read meets them;
               \* followed only in the runs that exercise the loaders
  handles,     \* the audio files held open by transfers in progress; followed
               \* only in the runs that exercise the transfers
  merge,       \* history: the source file the script merged last, the stored
               \* playlist it found and the playlist it made of it
  blocklist,   \* contents of data/tokenBlocklist.json: a sequence of entries
  revoked      \* history: the token ids POST /auth/logout has blocklisted

vars ==
  <<tracks, playlists, imports, script, files, now, res, before, disk, handles,
    merge, blocklist, revoked>>

----------------------------------------------------------------------------
(* Bounds of the model *)

MaxUuid == 4          \* ids of uuidv4() in use at once
MaxPlaylists == 2     \* playlists stored at once
MaxListLen == 2       \* length of a request-supplied id list or source file
MaxImports == 1       \* import requests suspended at once
MaxScriptFiles == 2   \* playlist source files read by one script run
MaxFileSize == 2      \* bytes in an audio file
MaxRangeDigits == 1   \* digits of the start and of the end of most Range headers

----------------------------------------------------------------------------
(* Values *)

\* null or undefined where a string is expected.
Null == "null"

\* An optional value: None for null or undefined, Some(x) for the value x.
None == <<>>

Some(x) == <<x>>

Val(o) == o[1]

Users == {"u1", "u2"}

PlaylistNames == {"mix", "Mix", "jazz"}

Artists == {"muse", "Muse"}

TrackNames == {"starlight", "new born"}

\* Size in bytes of the audio file a finished yt-dlp download leaves.
DownloadSizes == {3}

\* An id no uuidv4() call ever returned: what a client can send as a made-up id.
GhostId == 0

\* String.prototype.toLowerCase on the strings of the model.
ToLowerCase(s) ==
  CASE s = "Mix" -> "mix"
    [] s = "Muse" -> "muse"
    [] OTHER -> s

Range(s) == {s[i] : i \in 1..Len(s)}

SeqsUpTo(S, n) == UNION {[1..k -> S] : k \in 0..n}

\* Array.prototype.includes
Includes(s, x) == \E i \in 1..Len(s) : s[i] = x

\* Array.prototype.findIndex, 0 standing for -1.
FindIndex(s, P(_)) ==
  IF \E i \in 1..Len(s) : P(s[i])
  THEN CHOOSE i \in 1..Len(s) : P(s[i]) /\ \A j \in 1..(i - 1) : ~P(s[j])
  ELSE 0

\* Array.prototype.find (|| null)
Find(s, P(_)) == IF FindIndex(s, P) = 0 THEN None ELSE Some(s[FindIndex(s, P)])

----------------------------------------------------------------------------
(* Track store: src/models/trackStore.js, lines 1-215 *)

\* A comparison that forgets toLowerCase().
SameArtistAndNameExact(t, artist, trackName) ==
  t.artist = artist /\ t.trackName = trackName

SameArtistAndName(t, artist, trackName) ==
  /\ ToLowerCase(t.artist) = ToLowerCase(artist)
  /\ ToLowerCase(t.trackName) = ToLowerCase(trackName)

\* trackStore.findById over the loaded array ts.
TrackFindById(ts, id) == Find(ts, LAMBDA t : t.id = id)

\* A findByIds without filter(Boolean): one entry per id, found or not.
TrackFindByIdsUnfiltered(ts, ids) ==
  [i \in 1..Len(ids) |-> TrackFindById(ts, ids[i])]

\* trackStore.findByIds: the stored tracks of ids, in the order of ids, the
\* ids with no stored track filtered out.
RECURSIVE TrackFindByIds(_, _)
TrackFindByIds(ts, ids) ==
  IF ids = <<>> THEN <<>>
  ELSE LET t == TrackFindById(ts, Head(ids))
       IN (IF t = None THEN <<>> ELSE <<Val(t)>>)
          \o TrackFindByIds(ts, Tail(ids))

\* trackStore.findByArtistAndName over the loaded array ts.
FindByArtistAndName(ts, artist, trackName) ==
  Find(ts, LAMBDA t : SameArtistAndName(t, artist, trackName))

\* An addTrack that appends without looking for an existing track.
TrackAddTrackUnchecked(ts, track) ==
  [file |-> Append(ts, track), result |-> track, wrote |-> TRUE, loads |-> 1]

\* An addTrack that overwrites the stored track of the same artist and name.
TrackAddTrackReplace(ts, track) ==
  LET existing == FindByArtistAndName(ts, track.artist, track.trackName)
  IN IF existing # None
     THEN [file |-> [i \in 1..Len(ts) |->
                       IF ts[i] = Val(existing) THEN track ELSE ts[i]],
           result |-> track, wrote |-> TRUE, loads |-> 1]
     ELSE [file |-> Append(ts, track), result |-> track, wrote |-> TRUE,
           loads |-> 2]

\* trackStore.addTrack: the file afterwards, the value returned, whether the
\* file was written and how many times it was read.
TrackAddTrack(ts, track) ==
  LET existing == FindByArtistAndName(ts, track.artist, track.trackName)
  IN IF existing # None
     THEN [file |-> ts, result |-> Val(existing), wrote |-> FALSE, loads |-> 1]
     ELSE [file |-> Append(ts, track), result |-> track, wrote |-> TRUE,
           loads |-> 2]

\* trackStore.addTracks: one load, the loop over newTracks, one save.
RECURSIVE TrackAddTracksLoop(_, _, _)
TrackAddTracksLoop(ts, newTracks, results) ==
  IF newTracks = <<>> THEN [file |-> ts, result |-> results]
  ELSE LET newTrack == Head(newTracks)
           existing == Find(ts, LAMBDA t :
                         SameArtistAndName(t, newTrack.artist, newTrack.trackName))
       IN IF existing # None
          THEN TrackAddTracksLoop(ts, Tail(newTracks),
                                  Append(results, Val(existing)))
          ELSE TrackAddTracksLoop(Append(ts, newTrack), Tail(newTracks),
                                  Append(results, newTrack))

TrackAddTracks(ts, newTracks) ==
  LET r == TrackAddTracksLoop(ts, newTracks, <<>>)
  IN [file |-> r.file, result |-> r.result, wrote |-> TRUE, loads |-> 1]

----------------------------------------------------------------------------
(* Playlist store: src/models/trackStore.js, lines 217-476 *)

\* An ownership test that forgets the user.
OwnedByAnyone(p, id, userId) == p.id = id

\* The findIndex predicate of every mutating call: the id and the owner match.
Owned(p, id, userId) == p.id = id /\ p.userId = userId

\* playlistStore.findById
PlaylistFindById(pls, id) == Find(pls, LAMBDA p : p.id = id)

\* playlistStore.findByUserIdAndName
FindByUserIdAndName(pls, userId, name) ==
  Find(pls, LAMBDA p : p.userId = userId
                       /\ ToLowerCase(p.name) = ToLowerCase(name))

\* playlistStore.create
PlaylistCreate(pls, playlist, time) ==
  LET newPlaylist == [id |-> playlist.id, userId |-> playlist.userId,
                      name |-> playlist.name, trackIds |-> playlist.trackIds,
                      createdAt |-> time, updatedAt |-> time]
  IN [file |-> Append(pls, newPlaylist), result |-> newPlaylist, wrote |-> TRUE]

\* playlistStore.update; updates.name is Null and updates.trackIds is None
\* when the key is undefined.
\* An update that spreads every key of updates over the stored playlist.
PlaylistUpdateSpread(pls, id, userId, updates, time) ==
  LET index == FindIndex(pls, LAMBDA p : Owned(p, id, userId))
      given(key) == key \in DOMAIN updates /\ updates[key] # None
  IN IF index = 0
     THEN [file |-> pls, result |-> None, wrote |-> FALSE]
     ELSE LET old == pls[index]
              new == [old EXCEPT
                        !.name = IF updates.name # Null THEN updates.name ELSE @,
                        !.trackIds = IF updates.trackIds # None
                                     THEN Val(updates.trackIds) ELSE @,
                        !.id = IF given("id") THEN Val(updates.id) ELSE @,
                        !.userId = IF given("userId")
                                   THEN Val(updates.userId) ELSE @,
                        !.createdAt = IF given("createdAt")
                                      THEN Val(updates.createdAt) ELSE @,
                        !.updatedAt = time]
          IN [file |-> [pls EXCEPT ![index] = new], result |-> Some(new),
              wrote |-> TRUE]

PlaylistUpdate(pls, id, userId, updates, time) ==
  LET index == FindIndex(pls, LAMBDA p : Owned(p, id, userId))
  IN IF index = 0
     THEN [file |-> pls, result |-> None, wrote |-> FALSE]
     ELSE LET old == pls[index]
              new == [old EXCEPT
                        !.name = IF updates.name # Null THEN updates.name ELSE @,
                        !.trackIds = IF updates.trackIds # None
                                     THEN Val(updates.trackIds) ELSE @,
                        !.updatedAt = time]
          IN [file |-> [pls EXCEPT ![index] = new], result |-> Some(new),
              wrote |-> TRUE]

\* Array.prototype.splice(index, 1)
Splice(s, index) == SubSeq(s, 1, index - 1) \o SubSeq(s, index + 1, Len(s))

\* playlistStore.remove
PlaylistRemove(pls, id, userId) ==
  LET index == FindIndex(pls, LAMBDA p : Owned(p, id, userId))
  IN IF index = 0
     THEN [file |-> pls, result |-> FALSE, wrote |-> FALSE]
     ELSE [file |-> Splice(pls, index), result |-> TRUE, wrote |-> TRUE]

\* An addTrack that assigns the id instead of pushing it.
PlaylistAddTrackOverwrite(pls, playlistId, userId, trackId, time) ==
  LET index == FindIndex(pls, LAMBDA p : Owned(p, playlistId, userId))
  IN IF index = 0
     THEN [file |-> pls, result |-> None, wrote |-> FALSE]
     ELSE IF ~Includes(pls[index].trackIds, trackId)
     THEN LET new == [pls[index] EXCEPT !.trackIds = <<trackId>>,
                                        !.updatedAt = time]
          IN [file |-> [pls EXCEPT ![index] = new], result |-> Some(new),
              wrote |-> TRUE]
     ELSE [file |-> pls, result |-> Some(pls[index]), wrote |-> FALSE]

\* playlistStore.addTrack
PlaylistAddTrack(pls, playlistId, userId, trackId, time) ==
  LET index == FindIndex(pls, LAMBDA p : Owned(p, playlistId, userId))
  IN IF index = 0
     THEN [file |-> pls, result |-> None, wrote |-> FALSE]
     ELSE IF ~Includes(pls[index].trackIds, trackId)
     THEN LET new == [pls[index] EXCEPT !.trackIds = Append(@, trackId),
                                        !.updatedAt = time]
          IN [file |-> [pls EXCEPT ![index] = new], result |-> Some(new),
              wrote |-> TRUE]
     ELSE [file |-> pls, result |-> Some(pls[index]), wrote |-> FALSE]

\* A loop that pushes every id, included or not.
PushAll(ids, trackIds) == ids \o trackIds

\* The loop of playlistStore.addTracks: push every id not yet included.
RECURSIVE PushNew(_, _)
PushNew(ids, trackIds) ==
  IF trackIds = <<>> THEN ids
  ELSE PushNew(IF ~Includes(ids, Head(trackIds))
               THEN Append(ids, Head(trackIds)) ELSE ids,
               Tail(trackIds))

\* playlistStore.addTracks
PlaylistAddTracks(pls, playlistId, userId, trackIds, time) ==
  LET index == FindIndex(pls, LAMBDA p : Owned(p, playlistId, userId))
  IN IF index = 0
     THEN [file |-> pls, result |-> None, wrote |-> FALSE]
     ELSE LET new == [pls[index] EXCEPT !.trackIds = PushNew(@, trackIds),
                                        !.updatedAt = time]
          IN [file |-> [pls EXCEPT ![index] = new], result |-> Some(new),
              wrote |-> TRUE]

\* Array.prototype.filter(id => id !== trackId)
FilterOut(ids, trackId) == SelectSeq(ids, LAMBDA id : id # trackId)

\* A removeTrack that, like addTrack, saves only when it changed trackIds.
PlaylistRemoveTrackIfPresent(pls, playlistId, userId, trackId, time) ==
  LET index == FindIndex(pls, LAMBDA p : Owned(p, playlistId, userId))
  IN IF index = 0
     THEN [file |-> pls, result |-> None, wrote |-> FALSE]
     ELSE IF Includes(pls[index].trackIds, trackId)
     THEN LET new == [pls[index] EXCEPT !.trackIds = FilterOut(@, trackId),
                                        !.updatedAt = time]
          IN [file |-> [pls EXCEPT ![index] = new], result |-> Some(new),
              wrote |-> TRUE]
     ELSE [file |-> pls, result |-> Some(pls[index]), wrote |-> FALSE]

\* playlistStore.removeTrack
PlaylistRemoveTrack(pls, playlistId, userId, trackId, time) ==
  LET index == FindIndex(pls, LAMBDA p : Owned(p, playlistId, userId))
  IN IF index = 0
     THEN [file |-> pls, result |-> None, wrote |-> FALSE]
     ELSE LET new == [pls[index] EXCEPT !.trackIds = FilterOut(@, trackId),
                                        !.updatedAt = time]
          IN [file |-> [pls EXCEPT ![index] = new], result |-> Some(new),
              wrote |-> TRUE]

----------------------------------------------------------------------------
(* Requests and responses *)

\* What the server answered to the last request: the route, the request's
\* parameters, the status and error code, the body's data, and which of the
\* two JSON files the handler wrote.
Response(route, req, status, code, data, wroteP, wroteT) ==
  [route |-> route, req |-> req, status |-> status, code |-> code,
   data |-> data, wrotePlaylists |-> wroteP, wroteTracks |-> wroteT]

NoResponse == Response("none", [userId |-> Null], 0, "NONE", None, FALSE, FALSE)

\* The ids a client can name: those of stored records and a made-up one.
\* The ids held anywhere in the two files or in the script's memory.
IdsOf(ts, pls) ==
  {ts[i].id : i \in 1..Len(ts)} \cup {pls[i].id : i \in 1..Len(pls)}
  \cup UNION {Range(pls[i].trackIds) : i \in 1..Len(pls)}

\* uuidv4() returns an id held nowhere: the ids are numbered, uuid is the
\* largest one in use and uuid + 1 the next one returned.
uuid ==
  LET used == IdsOf(tracks, playlists) \cup IdsOf(script.tracks, script.playlists)
              \cup {GhostId}
  IN CHOOSE m \in used : \A n \in used : n <= m

KnownTrackIds == {tracks[i].id : i \in 1..Len(tracks)} \cup {GhostId}

KnownPlaylistIds == {playlists[i].id : i \in 1..Len(playlists)} \cup {GhostId}

----------------------------------------------------------------------------
(* Playlist routes: src/routes/playlists.js *)

\* POST /playlists
CreatePlaylist(userId, name) ==
  LET req == [userId |-> userId, name |-> name]
      existing == FindByUserIdAndName(playlists, userId, name)
  IN IF existing # None
     THEN /\ res' = Response("POST /playlists", req, 409, "DUPLICATE_PLAYLIST",
                             None, FALSE, FALSE)
          /\ UNCHANGED <<tracks, playlists, imports, script, files, now>>
     ELSE LET r == PlaylistCreate(playlists,
                     [id |-> uuid + 1, userId |-> userId, name |-> name,
                      trackIds |-> <<>>], now)
          IN /\ uuid < MaxUuid
             /\ Len(playlists) < MaxPlaylists
             /\ playlists' = r.file
             /\ res' = Response("POST /playlists", req, 201, "OK",
                                Some(r.result), r.wrote, FALSE)
             /\ UNCHANGED <<tracks, imports, script, files, now>>

\* A PUT route that tells a non-owner that the playlist is not theirs.
UpdatePlaylistForbidden(userId, id, name, trackIds) ==
  LET req == [userId |-> userId, id |-> id, name |-> name, trackIds |-> trackIds]
      playlist == PlaylistFindById(playlists, id)
      r == PlaylistUpdate(playlists, id, userId,
                          [name |-> name, trackIds |-> trackIds], now)
  IN /\ playlists' = r.file
     /\ res' = IF playlist # None /\ Val(playlist).userId # userId
               THEN Response("PUT /playlists/:id", req, 403, "FORBIDDEN", None,
                             FALSE, FALSE)
               ELSE IF r.result = None
               THEN Response("PUT /playlists/:id", req, 404,
                             "PLAYLIST_NOT_FOUND", None, r.wrote, FALSE)
               ELSE Response("PUT /playlists/:id", req, 200, "OK", r.result,
                             r.wrote, FALSE)
     /\ UNCHANGED <<tracks, imports, script, files, now>>

\* PUT /playlists/:id
UpdatePlaylist(userId, id, name, trackIds) ==
  LET req == [userId |-> userId, id |-> id, name |-> name, trackIds |-> trackIds]
      existing == FindByUserIdAndName(playlists, userId, name)
      updates == [name |-> name, trackIds |-> trackIds]
      r == PlaylistUpdate(playlists, id, userId, updates, now)
  IN /\ IF name # Null /\ existing # None /\ Val(existing).id # id
        THEN /\ res' = Response("PUT /playlists/:id", req, 409,
                                "DUPLICATE_PLAYLIST", None, FALSE, FALSE)
             /\ UNCHANGED playlists
        ELSE /\ playlists' = r.file
             /\ res' = IF r.result = None
                       THEN Response("PUT /playlists/:id", req, 404,
                                     "PLAYLIST_NOT_FOUND", None, r.wrote, FALSE)
                       ELSE Response("PUT /playlists/:id", req, 200, "OK",
                                     r.result, r.wrote, FALSE)
     /\ UNCHANGED <<tracks, imports, script, files, now>>

\* DELETE /playlists/:id
DeletePlaylist(userId, id) ==
  LET req == [userId |-> userId, id |-> id]
      r == PlaylistRemove(playlists, id, userId)
  IN /\ playlists' = r.file
     /\ res' = IF ~r.result
               THEN Response("DELETE /playlists/:id", req, 404,
                             "PLAYLIST_NOT_FOUND", None, r.wrote, FALSE)
               ELSE Response("DELETE /playlists/:id", req, 200, "OK", None,
                             r.wrote, FALSE)
     /\ UNCHANGED <<tracks, imports, script, files, now>>

\* POST /playlists/:id/tracks; trackId and trackIds are None when the body
\* does not carry them.
AddTracksToPlaylist(userId, id, trackId, trackIds) ==
  LET route == "POST /playlists/:id/tracks"
      req == [userId |-> userId, id |-> id, trackId |-> trackId,
              trackIds |-> trackIds]
      many == trackIds # None /\ Len(Val(trackIds)) > 0
      r == IF many
           THEN PlaylistAddTracks(playlists, id, userId, Val(trackIds), now)
           ELSE PlaylistAddTrack(playlists, id, userId, Val(trackId), now)
  IN /\ IF trackId = None /\ ~many
        THEN /\ res' = Response(route, req, 400, "VALIDATION_ERROR", None,
                                FALSE, FALSE)
             /\ UNCHANGED playlists
        ELSE IF many /\ Len(TrackFindByIds(tracks, Val(trackIds)))
                          # Len(Val(trackIds))
        THEN /\ res' = Response(route, req, 400, "INVALID_TRACKS", None,
                                FALSE, FALSE)
             /\ UNCHANGED playlists
        ELSE IF ~many /\ TrackFindById(tracks, Val(trackId)) = None
        THEN /\ res' = Response(route, req, 404, "TRACK_NOT_FOUND", None,
                                FALSE, FALSE)
             /\ UNCHANGED playlists
        ELSE /\ playlists' = r.file
             /\ res' = IF r.result = None
                       THEN Response(route, req, 404, "PLAYLIST_NOT_FOUND",
                                     None, r.wrote, FALSE)
                       ELSE Response(route, req, 200, "OK", r.result, r.wrote,
                                     FALSE)
     /\ UNCHANGED <<tracks, imports, script, files, now>>

\* DELETE /playlists/:id/tracks/:trackId
RemoveTrackFromPlaylist(userId, id, trackId) ==
  LET route == "DELETE /playlists/:id/tracks/:trackId"
      req == [userId |-> userId, id |-> id, trackId |-> trackId]
      r == PlaylistRemoveTrack(playlists, id, userId, trackId, now)
  IN /\ playlists' = r.file
     /\ res' = IF r.result = None
               THEN Response(route, req, 404, "PLAYLIST_NOT_FOUND", None,
                             r.wrote, FALSE)
               ELSE Response(route, req, 200, "OK", r.result, r.wrote, FALSE)
     /\ UNCHANGED <<tracks, imports, script, files, now>>

----------------------------------------------------------------------------
(* Track import route: src/unnamed/part_003, lines 280-481 *)

\* sanitizeFilename (src/unnamed/part_001) on the strings of the model: a
\* space becomes an underscore.
SanitizeFilename(name) ==
  CASE name = "new born" -> "new_born"
    [] OTHER -> name

\* buildTrackFilename
BuildTrackFilename(artist, trackName) ==
  SanitizeFilename(artist) \o "-" \o SanitizeFilename(trackName) \o ".m4a"

\* fs: a file written, a file unlinked.
WriteFile(fs, name, size) ==
  [n \in DOMAIN fs \cup {name} |-> IF n = name THEN size ELSE fs[n]]

Unlink(fs, name) == [n \in DOMAIN fs \ {name} |-> fs[n]]

\* POST /tracks/import up to the download: the duplicate check, then the
\* request is suspended at the await of the yt-dlp download.
\* At most limit requests are suspended at once.
ImportBeginUpTo(artist, trackName, limit) ==
  LET req == [artist |-> artist, trackName |-> trackName]
      existing == FindByArtistAndName(tracks, artist, trackName)
  IN IF existing # None
     THEN /\ res' = Response("POST /tracks/import", req, 200, "DUPLICATE",
                             existing, FALSE, FALSE)
          /\ UNCHANGED <<tracks, playlists, imports, script, files, now>>
     ELSE /\ Len(imports) < limit
          /\ imports' = Append(imports, req)
          /\ UNCHANGED <<tracks, playlists, script, files, now, res>>

ImportBegin(artist, trackName) ==
  ImportBeginUpTo(artist, trackName, MaxImports)

\* The download succeeded: the audio file is in the songs directory, the
\* track record is built and handed to trackStore.addTrack.
ImportDownloadOk(i, size) ==
  LET req == imports[i]
      filename == BuildTrackFilename(req.artist, req.trackName)
      track == [id |-> uuid + 1, trackName |-> req.trackName,
                artist |-> req.artist, filePath |-> filename]
      r == TrackAddTrack(tracks, track)
  IN /\ uuid < MaxUuid
     /\ files' = WriteFile(files, filename, size)
     /\ tracks' = r.file
     /\ imports' = Splice(imports, i)
     /\ res' = Response("POST /tracks/import", req, 201, "OK", Some(r.result),
                        FALSE, r.wrote)
     /\ UNCHANGED <<playlists, script, now>>

\* The download failed: the partial file is unlinked, the request answers 502.
ImportDownloadFail(i) ==
  LET req == imports[i]
      filename == BuildTrackFilename(req.artist, req.trackName)
  IN /\ files' = Unlink(files, filename)
     /\ imports' = Splice(imports, i)
     /\ res' = Response("POST /tracks/import", req, 502,
                        "IMPORT_DOWNLOAD_FAILED", None, FALSE, FALSE)
     /\ UNCHANGED <<tracks, playlists, script, now>>

\* A direct call of trackStore.addTracks with a batch of new track objects,
\* each built with its own uuidv4() id.
TrackStoreAddTracks(batch) ==
  LET newTracks == [i \in 1..Len(batch) |->
                      [id |-> uuid + i, trackName |-> batch[i].trackName,
                       artist |-> batch[i].artist, filePath |-> Null]]
      r == TrackAddTracks(tracks, newTracks)
  IN /\ uuid + Len(batch) <= MaxUuid
     /\ tracks' = r.file
     /\ res' = Response("trackStore.addTracks", [batch |-> batch], 0, "OK",
                        r.result, FALSE, r.wrote)
     /\ UNCHANGED <<playlists, imports, script, files, now>>

----------------------------------------------------------------------------
(* Import script: src/unnamed/part_000, lines 1-257 *)

\* path.basename and String.prototype.normalize('NFC') on the paths of the
\* model; "cafe-nfd.m4a" and "cafe-nfc.m4a" stand for the decomposed and the
\* composed spelling of one accented file name, "cafe-mixed.m4a" for a spelling
\* that is in neither normal form.
Basename(p) ==
  CASE p = "dl/cafe-nfd.m4a" -> "cafe-nfd.m4a"
    [] OTHER -> p

Nfc(p) ==
  CASE p = "cafe-nfd.m4a" -> "cafe-nfc.m4a"
    [] p = "cafe-mixed.m4a" -> "cafe-nfc.m4a"
    [] OTHER -> p

\* The track objects a playlist source file can list; a Null artist is a
\* source track with a missing field.
SourceTracks ==
  { [artist |-> "muse", track_name |-> "starlight", local_path |-> Null],
    [artist |-> "Muse", track_name |-> "starlight",
     local_path |-> "dl/cafe-nfd.m4a"],
    [artist |-> "muse", track_name |-> "new born",
     local_path |-> "dl/cafe-nfd.m4a"],
    [artist |-> Null, track_name |-> "starlight", local_path |-> Null] }

\* normalizeTrack
NormalizeTrack(sourceTrack, id) ==
  [id |-> id, trackName |-> sourceTrack.track_name,
   artist |-> sourceTrack.artist,
   filePath |-> IF sourceTrack.local_path # Null
                THEN Nfc(Basename(sourceTrack.local_path)) ELSE Null]

\* The script's lookup key `${artist.toLowerCase()}|${trackName.toLowerCase()}`
LookupKey(artist, trackName) == <<ToLowerCase(artist), ToLowerCase(trackName)>>

\* trackLookup.get(key): the map is filled from the loaded tracks in order,
\* a later track replacing an earlier one under the same key.
RECURSIVE TrackLookup(_, _, _)
TrackLookup(ts, artist, trackName) ==
  IF ts = <<>> THEN None
  ELSE IF LookupKey(ts[Len(ts)].artist, ts[Len(ts)].trackName)
          = LookupKey(artist, trackName)
  THEN Some(ts[Len(ts)])
  ELSE TrackLookup(SubSeq(ts, 1, Len(ts) - 1), artist, trackName)

\* The loop over one source file's tracks (lines 168-195): the script's track
\* array, the playlist's collected ids and the uuids used.
RECURSIVE ProcessSourceTracks(_, _, _, _)
ProcessSourceTracks(ts, sourceTracks, playlistTrackIds, used) ==
  IF sourceTracks = <<>>
  THEN [tracks |-> ts, playlistTrackIds |-> playlistTrackIds, uuid |-> used]
  ELSE LET sourceTrack == Head(sourceTracks)
           rest == Tail(sourceTracks)
       IN IF sourceTrack.track_name = Null \/ sourceTrack.artist = Null
          THEN ProcessSourceTracks(ts, rest, playlistTrackIds, used)
          ELSE LET found == TrackLookup(ts, sourceTrack.artist,
                                        sourceTrack.track_name)
                   track == IF found # None THEN Val(found)
                            ELSE NormalizeTrack(sourceTrack, used + 1)
                   ids == IF ~Includes(playlistTrackIds, track.id)
                          THEN Append(playlistTrackIds, track.id)
                          ELSE playlistTrackIds
               IN IF found # None
                  THEN ProcessSourceTracks(ts, rest, ids, used)
                  ELSE ProcessSourceTracks(Append(ts, track), rest, ids,
                                           used + 1)

\* A merge that puts the source file's ids in the place of the stored ones.
MergePlaylistReplace(pls, stored, userId, playlistName, playlistTrackIds, used, time) ==
  LET existingPlaylist == FindByUserIdAndName(stored, userId, playlistName)
      made == IF existingPlaylist # None
              THEN [Val(existingPlaylist) EXCEPT !.trackIds = playlistTrackIds,
                                                 !.updatedAt = time]
              ELSE [id |-> used + 1, userId |-> userId, name |-> playlistName,
                    trackIds |-> playlistTrackIds,
                    createdAt |-> time, updatedAt |-> time]
      idx == FindIndex(pls, LAMBDA p : p.id = made.id)
  IN [playlists |-> IF existingPlaylist = None THEN Append(pls, made)
                    ELSE IF idx # 0 THEN [pls EXCEPT ![idx] = made] ELSE pls,
      uuid |-> IF existingPlaylist = None THEN used + 1 ELSE used,
      result |-> made]

\* The merge of one source file into the script's playlist array (lines
\* 197-234); stored is the playlists file as findByUserIdAndName reads it.
MergePlaylist(pls, stored, userId, playlistName, playlistTrackIds, used, time) ==
  LET existingPlaylist == FindByUserIdAndName(stored, userId, playlistName)
  IN IF existingPlaylist # None
     THEN LET e == Val(existingPlaylist)
              existingIds == Range(e.trackIds)
              merged == [e EXCEPT
                           !.trackIds = @ \o SelectSeq(playlistTrackIds,
                                           LAMBDA id : id \notin existingIds),
                           !.updatedAt = time]
              idx == FindIndex(pls, LAMBDA p : p.id = e.id)
          IN [playlists |-> IF idx # 0 THEN [pls EXCEPT ![idx] = merged]
                            ELSE pls,
              uuid |-> used, result |-> merged]
     ELSE LET newPlaylist == [id |-> used + 1, userId |-> userId,
                              name |-> playlistName,
                              trackIds |-> playlistTrackIds,
                              createdAt |-> time, updatedAt |-> time]
          IN [playlists |-> Append(pls, newPlaylist), uuid |-> used + 1,
              result |-> newPlaylist]

ScriptIdle ==
  [pc |-> "idle", tracks |-> <<>>, playlists |-> <<>>, done |-> {},
   last |-> Null]

\* The script starts: it loads tracks.json and playlists.json (lines 113-122).
ScriptStart ==
  /\ script.pc = "idle"
  /\ script' = [pc |-> "files", tracks |-> tracks, playlists |-> playlists,
                done |-> {}, last |-> Null]
  /\ UNCHANGED <<tracks, playlists, imports, files, now, res>>

\* The script reads one source file playlists/<username>/<playlistName>.json
\* (lines 147-235); the directories are walked one user after the other.
ScriptFile(username, playlistName, sourceTracks) ==
  LET t == ProcessSourceTracks(script.tracks, sourceTracks, <<>>, uuid)
      m == MergePlaylist(script.playlists, playlists, username, playlistName,
                         t.playlistTrackIds, t.uuid, now)
  IN /\ script.pc = "files"
     /\ <<username, playlistName>> \notin script.done
     /\ Cardinality(script.done) < MaxScriptFiles
     /\ \/ username = script.last
        \/ username \notin {d[1] : d \in script.done}
     /\ m.uuid <= MaxUuid
     /\ Len(m.playlists) <= MaxPlaylists
     /\ script' = [script EXCEPT !.tracks = t.tracks,
                                 !.playlists = m.playlists,
                                 !.done = @ \cup {<<username, playlistName>>},
                                 !.last = username]
     /\ UNCHANGED <<tracks, playlists, imports, files, now, res>>

\* saveAllTracks(tracks), line 241
ScriptSaveTracks ==
  /\ script.pc = "files"
  /\ tracks' = script.tracks
  /\ script' = [script EXCEPT !.pc = "savePlaylists"]
  /\ UNCHANGED <<playlists, imports, files, now, res>>

\* saveAllPlaylists(playlists), line 242, and the process ends.
ScriptSavePlaylists ==
  /\ script.pc = "savePlaylists"
  /\ playlists' = script.playlists
  /\ script' = ScriptIdle
  /\ UNCHANGED <<tracks, imports, files, now, res>>

----------------------------------------------------------------------------
(* The server and the import script *)

----------------------------------------------------------------------------
(* Store loaders: getAllTracks and getAllPlaylists (src/models/trackStore.js), *)
(* getAllUsers (src/unnamed/part_005), getBlocklist (src/routes/auth.js)      *)

MaxTextLen == 3

Stores == {"tracks.json", "playlists.json", "users.json", "tokenBlocklist.json"}

\* A backing file is missing, unreadable, or holds a text: a sequence of the
\* tokens "[", "]" and an item. JSON.stringify writes "[", items, "]"; a
\* write cut short or an edit by hand leaves any other sequence.
Absent == [cond |-> "ENOENT", text |-> <<>>]
Denied == [cond |-> "EACCES", text |-> <<>>]
File(text) == [cond |-> "file", text |-> text]

NoFiles == [s \in Stores |-> Absent]

Returned(value) == [threw |-> FALSE, code |-> "none", value |-> value]
Thrown(code) == [threw |-> TRUE, code |-> code, value |-> <<>>]

\* fs.readFileSync(file, 'utf8')
ReadFileSync(f) == IF f.cond = "file" THEN Returned(f.text) ELSE Thrown(f.cond)

\* JSON.parse of a text of the model: the items between one "[" and one "]",
\* and a SyntaxError, which carries no code, for every other text.
JsonParse(text) ==
  IF /\ Len(text) >= 2
     /\ text[1] = "[" /\ text[Len(text)] = "]"
     /\ \A i \in 2..(Len(text) - 1) : text[i] \notin {"[", "]"}
  THEN Returned(SubSeq(text, 2, Len(text) - 1))
  ELSE Thrown("undefined")

\* A loader that answers every failure with the empty collection.
LoadOrEmpty(d) ==
  LET data == ReadFileSync(d["tracks.json"])
      parsed == JsonParse(data.value)
  IN IF data.threw \/ parsed.threw THEN Returned(<<>>) ELSE parsed

\* The four loaders: try { return JSON.parse(fs.readFileSync(FILE)) }
\* catch (err) { if (err.code === 'ENOENT') return []; throw err }
GetAllTracks(d) ==
  LET data == ReadFileSync(d["tracks.json"])
      err == IF data.threw THEN data ELSE JsonParse(data.value)
  IN IF err.threw /\ err.code = "ENOENT" THEN Returned(<<>>) ELSE err

GetAllPlaylists(d) ==
  LET data == ReadFileSync(d["playlists.json"])
      err == IF data.threw THEN data ELSE JsonParse(data.value)
  IN IF err.threw /\ err.code = "ENOENT" THEN Returned(<<>>) ELSE err

GetAllUsers(d) ==
  LET data == ReadFileSync(d["users.json"])
      err == IF data.threw THEN data ELSE JsonParse(data.value)
  IN IF err.threw /\ err.code = "ENOENT" THEN Returned(<<>>) ELSE err

GetBlocklist(d) ==
  LET data == ReadFileSync(d["tokenBlocklist.json"])
      err == IF data.threw THEN data ELSE JsonParse(data.value)
  IN IF err.threw /\ err.code = "ENOENT" THEN Returned(<<>>) ELSE err

Loader(store, d) ==
  CASE store = "tracks.json" -> GetAllTracks(d)
    [] store = "playlists.json" -> GetAllPlaylists(d)
    [] store = "users.json" -> GetAllUsers(d)
    [] store = "tokenBlocklist.json" -> GetBlocklist(d)

----------------------------------------------------------------------------
Init ==
  /\ tracks = <<>>
  /\ playlists = <<>>
  /\ imports = <<>>
  /\ script = ScriptIdle
  /\ files = [n \in {} |-> 0]
  /\ now = 0
  /\ res = NoResponse
  /\ before = <<>>
  /\ disk = NoFiles
  /\ handles = {}
  /\ merge = None
  /\ blocklist = <<>>
  /\ revoked = {}

\* The id lists a client can send.
IdLists == SeqsUpTo(KnownTrackIds, MaxListLen)

StoredPlaylistIds == {playlists[i].id : i \in 1..Len(playlists)}

\* The bodies of PUT /playlists/:id: a name, a trackIds list, or neither.
UpdateBodies ==
  {[name |-> n, trackIds |-> None] : n \in PlaylistNames \cup {Null}}
  \cup {[name |-> Null, trackIds |-> Some(l)] : l \in IdLists}

\* A PUT body carrying both keys.
UpdateBothBodies ==
  {[name |-> n, trackIds |-> Some(<<t>>)] :
     n \in PlaylistNames, t \in KnownTrackIds}

\* The bodies of POST /playlists/:id/tracks: a trackId, a trackIds list, a
\* trackId beside an empty list, or neither.
AddTracksBodies ==
  {[trackId |-> None, trackIds |-> None]}
  \cup {[trackId |-> Some(t), trackIds |-> l] :
          t \in KnownTrackIds, l \in {None, Some(<<>>)}}
  \cup {[trackId |-> None, trackIds |-> Some(l)] : l \in IdLists}

\* The playlist routes, requested by the users of users for the playlist ids
\* of ids with the PUT bodies of bodies.
PlaylistRequests(users, ids, bodies) ==
  \E userId \in users :
    \/ \E name \in PlaylistNames : CreatePlaylist(userId, name)
    \/ \E id \in ids, body \in bodies :
         UpdatePlaylist(userId, id, body.name, body.trackIds)
    \/ \E id \in ids : DeletePlaylist(userId, id)
    \/ \E id \in ids, body \in AddTracksBodies :
         AddTracksToPlaylist(userId, id, body.trackId, body.trackIds)
    \/ \E id \in ids, trackId \in KnownTrackIds :
         RemoveTrackFromPlaylist(userId, id, trackId)

PlaylistRequest ==
  PlaylistRequests(Users, KnownPlaylistIds, UpdateBodies \cup UpdateBothBodies)

\* The (artist, trackName) pairs yt-dlp's metadata can name.
TrackKeys == [artist : Artists, trackName : TrackNames]

\* The track routes and the store's batch insert, for imports of the pairs of
\* keys and batches drawn from batches.
TrackRequests(keys, batches) ==
  \/ \E key \in keys : ImportBegin(key.artist, key.trackName)
  \/ \E i \in 1..Len(imports), size \in DownloadSizes : ImportDownloadOk(i, size)
  \/ \E i \in 1..Len(imports) : ImportDownloadFail(i)
  \/ \E batch \in batches : TrackStoreAddTracks(batch)

TrackRequest == TrackRequests(TrackKeys, SeqsUpTo(TrackKeys, MaxListLen))

\* A run of the import script over the directories of users, each holding
\* source files named after the playlist names of names.
Scripts(users, names, sources) ==
  \/ ScriptStart
  \/ \E username \in users, playlistName \in names,
        sourceTracks \in SeqsUpTo(sources, MaxListLen) :
       ScriptFile(username, playlistName, sourceTracks)
  \/ ScriptSaveTracks
  \/ ScriptSavePlaylists

Script == Scripts(Users, PlaylistNames, SourceTracks)

Next ==
  (PlaylistRequest \/ TrackRequest \/ Script)
  /\ UNCHANGED <<before, disk, handles, merge, blocklist, revoked>>

Spec == Init /\ [][Next]_vars

----------------------------------------------------------------------------
(* The playlist routes over a seeded track library *)

\* A tracks.json as seeding leaves it: a track with an audio file and a track
\* without one.
Library ==
  << [id |-> 1, trackName |-> "new born", artist |-> "muse",
      filePath |-> "cafe-nfc.m4a"],
     [id |-> 2, trackName |-> "run", artist |-> "air", filePath |-> Null] >>

InitLibrary ==
  /\ tracks = Library
  /\ playlists = <<>>
  /\ imports = <<>>
  /\ script = ScriptIdle
  /\ files = [n \in {} |-> 0]
  /\ now = 0
  /\ res = NoResponse
  /\ before = <<>>
  /\ disk = NoFiles
  /\ handles = {}
  /\ merge = None
  /\ blocklist = <<>>
  /\ revoked = {}

\* The track ids of the requests: the two stored tracks and an id no track has.
PlaylistTrackIds == {1, 2, GhostId}

PlaylistIdLists == SeqsUpTo(PlaylistTrackIds, MaxListLen)

PlaylistUpdateBodies ==
  {[name |-> n, trackIds |-> None] : n \in {Null, "mix"}}
  \cup {[name |-> Null, trackIds |-> Some(l)] : l \in PlaylistIdLists}

PlaylistAddBodies ==
  {[trackId |-> None, trackIds |-> None]}
  \cup {[trackId |-> Some(t), trackIds |-> l] :
          t \in PlaylistTrackIds, l \in {None, Some(<<>>)}}
  \cup {[trackId |-> None, trackIds |-> Some(l)] : l \in PlaylistIdLists}

\* The stored playlists of a user.
PlaylistIdsOf(userId) ==
  {playlists[i].id :
     i \in {j \in 1..Len(playlists) : playlists[j].userId = userId}}

\* The owner sends every body, the other user one body of each kind.
PlaylistUpdateBodiesOf(userId) ==
  IF userId = "u1" THEN PlaylistUpdateBodies
  ELSE {[name |-> "mix", trackIds |-> None],
        [name |-> Null, trackIds |-> Some(<<1>>)]}

PlaylistAddBodiesOf(userId) ==
  IF userId = "u1" THEN PlaylistAddBodies
  ELSE {[trackId |-> Some(1), trackIds |-> None],
        [trackId |-> None, trackIds |-> Some(<<1>>)]}

\* Two users create a playlist each and delete playlists, their own or not;
\* both update the first user's playlist, add tracks to it and remove tracks
\* from it.
NextPlaylists ==
  /\ \/ \E userId \in Users : CreatePlaylist(userId, "mix")
     \/ \E userId \in Users, id \in StoredPlaylistIds :
          DeletePlaylist(userId, id)
     \/ \E userId \in Users, id \in PlaylistIdsOf("u1") :
          \/ \E body \in PlaylistUpdateBodiesOf(userId) :
               UpdatePlaylist(userId, id, body.name, body.trackIds)
          \/ \E body \in PlaylistAddBodiesOf(userId) :
               AddTracksToPlaylist(userId, id, body.trackId, body.trackIds)
          \/ \E trackId \in PlaylistTrackIds :
               RemoveTrackFromPlaylist(userId, id, trackId)
  /\ UNCHANGED <<before, disk, handles, merge, blocklist, revoked>>

SpecPlaylists == InitLibrary /\ [][NextPlaylists]_vars

\* The track insert paths and the import script, from empty files.
\* Two spellings of one (artist, trackName) pair, and a second pair.
Starlight == [artist |-> "muse", trackName |-> "starlight"]

StarlightUpper == [artist |-> "Muse", trackName |-> "starlight"]

NewBorn == [artist |-> "muse", trackName |-> "new born"]

\* The source files of the script name the first pair in both spellings.
SpecTracksSources ==
  {x \in SourceTracks : x.track_name = "starlight" /\ x.artist # Null}

\* Imports of one spelling, batches of the other spelling and of the second
\* pair, and runs of the script.
NextTracks ==
  /\ \/ TrackRequests({StarlightUpper},
                      SeqsUpTo({Starlight, NewBorn}, MaxListLen))
     \/ Scripts({"u1"}, {"mix"}, SpecTracksSources)
  /\ UNCHANGED <<before, disk, handles, merge, blocklist, revoked>>

SpecTracks == Init /\ [][NextTracks]_vars

\* The import script beside playlist creation and renaming by one user.
SpecImportSources ==
  {x \in SourceTracks : x.artist = "muse" /\ x.track_name = "starlight"}

\* Two names equal ignoring case.
SpecImportNames == {"mix", "Mix"}

NextImport ==
  /\ \/ \E name \in SpecImportNames : CreatePlaylist("u1", name)
     \/ \E id \in StoredPlaylistIds, name \in SpecImportNames :
          UpdatePlaylist("u1", id, name, None)
     \/ Scripts({"u1"}, SpecImportNames, SpecImportSources)
  /\ UNCHANGED <<before, disk, handles, merge, blocklist, revoked>>

SpecImport == Init /\ [][NextImport]_vars

\* One user's create and add requests beside a run of the import script. The
\* server serves the requests it receives and a started script runs to its end.
\* before is the playlists file as the request served last found it, and the
\* file itself once the script has taken a step.
NextRequests ==
  \/ /\ \/ CreatePlaylist("u1", "mix")
        \/ \E id \in StoredPlaylistIds, body \in PlaylistAddBodies :
             AddTracksToPlaylist("u1", id, body.trackId, body.trackIds)
     /\ before' = playlists
     /\ UNCHANGED <<disk, handles, merge, blocklist, revoked>>
  \/ /\ Scripts({"u1"}, {"mix"}, SpecImportSources)
     /\ before' = playlists'
     /\ UNCHANGED <<disk, handles, merge, blocklist, revoked>>

SpecRequests == InitLibrary /\ [][NextRequests]_vars /\ WF_vars(NextRequests)

----------------------------------------------------------------------------
(* Path resolver: src/utils/resolveTrackPath.js, lines 15-31 *)

\* String.prototype.normalize('NFD') on the names of the model.
Nfd(p) ==
  CASE p = "cafe-nfc.m4a" -> "cafe-nfd.m4a"
    [] p = "cafe-mixed.m4a" -> "cafe-nfd.m4a"
    [] OTHER -> p

\* A resolver that stops after the NFC form.
ResolveTrackPathNoNfd(fs, filePath) ==
  IF filePath \in {Null, ""} THEN None
  ELSE IF filePath \in DOMAIN fs THEN Some(filePath)
  ELSE IF Nfc(filePath) \in DOMAIN fs THEN Some(Nfc(filePath))
  ELSE None

\* A resolver that tries the NFD form before the NFC form.
ResolveTrackPathNfdFirst(fs, filePath) ==
  IF filePath \in {Null, ""} THEN None
  ELSE IF filePath \in DOMAIN fs THEN Some(filePath)
  ELSE IF Nfd(filePath) \in DOMAIN fs THEN Some(Nfd(filePath))
  ELSE IF Nfc(filePath) \in DOMAIN fs THEN Some(Nfc(filePath))
  ELSE None

\* A resolver that remembers the last request's "file not found" instead of
\* looking at the songs directory again.
ResolveTrackPathCached(fs, filePath) ==
  IF res.status = 404 /\ res.code = "FILE_NOT_FOUND" THEN None
  ELSE IF filePath \in {Null, ""} THEN None
  ELSE IF filePath \in DOMAIN fs THEN Some(filePath)
  ELSE IF Nfc(filePath) \in DOMAIN fs THEN Some(Nfc(filePath))
  ELSE IF Nfd(filePath) \in DOMAIN fs THEN Some(Nfd(filePath))
  ELSE None

\* resolveTrackPath: a missing or empty path resolves to nothing; otherwise
\* the path as given, then its NFC form, then its NFD form; fs holds the names
\* present under the songs directory.
ResolveTrackPath(fs, filePath) ==
  IF filePath \in {Null, ""} THEN None
  ELSE IF filePath \in DOMAIN fs THEN Some(filePath)
  ELSE IF Nfc(filePath) \in DOMAIN fs THEN Some(Nfc(filePath))
  ELSE IF Nfd(filePath) \in DOMAIN fs THEN Some(Nfd(filePath))
  ELSE None

----------------------------------------------------------------------------
(* Stream endpoint: src/unnamed/part_003, lines 108-201 *)

\* A Range header is a sequence of tokens: the literal "bytes=", digits and
\* dashes.
Digits == {"0", "1", "2"}

DigitValue(c) ==
  CASE c = "0" -> 0
    [] c = "1" -> 1
    [] c = "2" -> 2

\* range.replace(/bytes=/, ''): the first "bytes=" is dropped.
ReplaceBytes(range) ==
  LET i == FindIndex(range, LAMBDA c : c = "bytes=")
  IN IF i = 0 THEN range ELSE Splice(range, i)

\* String.prototype.split('-')
RECURSIVE Split(_)
Split(str) ==
  LET i == FindIndex(str, LAMBDA c : c = "-")
  IN IF i = 0 THEN <<str>>
     ELSE <<SubSeq(str, 1, i - 1)>> \o Split(SubSeq(str, i + 1, Len(str)))

\* parseInt(str, 10): the value of the leading digits, None for NaN.
RECURSIVE ParseDigits(_, _)
ParseDigits(str, acc) ==
  IF str = <<>> \/ Head(str) \notin Digits THEN acc
  ELSE ParseDigits(Tail(str), 10 * acc + DigitValue(Head(str)))

ParseInt(str) ==
  IF str = <<>> \/ Head(str) \notin Digits THEN None
  ELSE Some(ParseDigits(str, 0))

\* a >= b and a > b on numbers that may be NaN: false when either is NaN.
Gte(a, b) == a # None /\ b # None /\ Val(a) >= Val(b)

Gt(a, b) == a # None /\ b # None /\ Val(a) > Val(b)

\* A range check that clamps nothing and forgets the end.
RangeNotSatisfiableStartOnly(start, end, fileSize) ==
  Gte(start, Some(fileSize)) \/ Gt(start, end)

\* The validation of line 157.
RangeNotSatisfiable(start, end, fileSize) ==
  Gte(start, Some(fileSize)) \/ Gte(end, Some(fileSize)) \/ Gt(start, end)

\* The body of a stream response: the stages the handler went through and the
\* headers it wrote (-1 where a header is absent).
StreamData(stages, contentLength, rangeStart, rangeEnd, rangeSize) ==
  Some([stages |-> stages, contentLength |-> contentLength,
        rangeStart |-> rangeStart, rangeEnd |-> rangeEnd,
        rangeSize |-> rangeSize])

\* The range branch (lines 150-179) for a file of fileSize bytes.
StreamRange(req, range, fileSize) ==
  LET route == "GET /tracks/:id/stream"
      stages == <<"RESOLVE_TRACK", "RESOLVE_FILE", "VALIDATE_RANGE">>
      parts == Split(ReplaceBytes(range))
      start == ParseInt(parts[1])
      end == IF Len(parts) >= 2 /\ parts[2] # <<>> THEN ParseInt(parts[2])
             ELSE Some(fileSize - 1)
  IN IF RangeNotSatisfiable(start, end, fileSize)
     THEN Response(route, req, 416, "RANGE_NOT_SATISFIABLE",
                   StreamData(Append(stages, "RANGE_ERROR"), -1, -1, -1, -1),
                   FALSE, FALSE)
     ELSE IF start = None \/ end = None
     THEN \* fs.createReadStream throws on a NaN start or end: the catch block
          Response(route, req, 500, "INTERNAL_ERROR",
                   StreamData(stages, -1, -1, -1, -1), FALSE, FALSE)
     ELSE Response(route, req, 206, "OK",
                   StreamData(Append(stages, "PARTIAL_RESPONSE"),
                              Val(end) - Val(start) + 1, Val(start), Val(end),
                              fileSize),
                   FALSE, FALSE)

\* GET /tracks/:id/stream; range is None when the request has no Range header.
StreamTrack(id, range) ==
  LET route == "GET /tracks/:id/stream"
      req == [id |-> id, range |-> range]
      track == TrackFindById(tracks, id)
      filePath == ResolveTrackPath(files, Val(track).filePath)
      fileSize == files[Val(filePath)]
  IN /\ res' =
          IF track = None
          THEN Response(route, req, 404, "TRACK_NOT_FOUND",
                        StreamData(<<"RESOLVE_TRACK">>, -1, -1, -1, -1),
                        FALSE, FALSE)
          ELSE IF Val(track).filePath = Null \/ filePath = None
          THEN Response(route, req, 404, "FILE_NOT_FOUND",
                        StreamData(<<"RESOLVE_TRACK", "RESOLVE_FILE">>,
                                   -1, -1, -1, -1),
                        FALSE, FALSE)
          ELSE IF range # None /\ Val(range) # <<>>
          THEN StreamRange(req, Val(range), fileSize)
          ELSE Response(route, req, 200, "OK",
                        StreamData(<<"RESOLVE_TRACK", "RESOLVE_FILE",
                                     "FULL_RESPONSE">>, fileSize, -1, -1, -1),
                        FALSE, FALSE)
     /\ UNCHANGED <<tracks, playlists, imports, script, files, now>>

\* The songs directory changes out of band: a file appears or is replaced, a
\* file disappears.
FsWrite(name, size) ==
  /\ files' = WriteFile(files, name, size)
  /\ UNCHANGED <<tracks, playlists, imports, script, now, res>>

FsRemove(name) ==
  /\ name \in DOMAIN files
  /\ files' = Unlink(files, name)
  /\ UNCHANGED <<tracks, playlists, imports, script, now, res>>

\* The Range headers of the model: "bytes=" and a start and an end of up to
\* MaxRangeDigits digits each, either of them possibly missing, with or without
\* the dash; some headers with longer numbers or a second dash; the empty
\* header; and a header without "bytes=".
RangeNumbers == SeqsUpTo(Digits, MaxRangeDigits)

RangeHeaders ==
  {<<"bytes=">> \o ds \o <<"-">> \o de : ds \in RangeNumbers, de \in RangeNumbers}
  \cup {<<"bytes=">> \o ds : ds \in RangeNumbers}
  \cup { <<"bytes=", "1", "0", "-">>, <<"bytes=", "0", "-", "1", "0">>,
         <<"bytes=", "0", "1", "-", "0", "1">>, <<"bytes=", "0", "-", "1", "-">>,
         <<"bytes=", "0", "-", "-", "1">>, <<>>, <<"0", "-", "1">> }

\* The two spellings of the accented file name of the library's second track.
SongNames == {"cafe-nfc.m4a", "cafe-nfd.m4a"}

\* The track with an audio file is requested with every header of the model;
\* an unknown id and the track without a filePath with no header, the empty
\* header and two well-formed ones.
StreamIds == {GhostId, 1, 2}

\* The file under the composed spelling takes every size, the one under the
\* decomposed spelling the largest.
FileSizes(name) ==
  IF name = "cafe-nfc.m4a" THEN 0..MaxFileSize ELSE {MaxFileSize}

StreamRanges(id) ==
  IF id = 1 THEN {None} \cup {Some(h) : h \in RangeHeaders}
  ELSE {None, Some(<<>>), Some(<<"bytes=", "0", "-", "1">>),
        Some(<<"bytes=", "0", "-">>)}

NextStream ==
  /\ \/ \E id \in StreamIds : \E range \in StreamRanges(id) :
          StreamTrack(id, range)
     \/ \E name \in SongNames : \E size \in FileSizes(name) :
          FsWrite(name, size)
     \/ \E name \in SongNames : FsRemove(name)
  /\ UNCHANGED <<before, disk, handles, merge, blocklist, revoked>>

SpecStream == InitLibrary /\ [][NextStream]_vars

\* GET /tracks/:id/download (src/unnamed/part_003, lines 207-271): the track,
\* its file and the headers of the answer; the file that is piped to the
\* client is the one the resolver found.
DownloadTrack(id) ==
  LET route == "GET /tracks/:id/download"
      req == [id |-> id]
      track == TrackFindById(tracks, id)
      filePath == ResolveTrackPath(files, Val(track).filePath)
  IN /\ res' =
          IF track = None
          THEN Response(route, req, 404, "TRACK_NOT_FOUND", None, FALSE, FALSE)
          ELSE IF Val(track).filePath = Null \/ filePath = None
          THEN Response(route, req, 404, "FILE_NOT_FOUND", None, FALSE, FALSE)
          ELSE Response(route, req, 200, "OK",
                        Some([file |-> Val(filePath),
                              contentLength |-> files[Val(filePath)],
                              filename |-> <<Val(track).artist, " - ",
                                             Val(track).trackName, ".m4a">>]),
                        FALSE, FALSE)
     /\ UNCHANGED <<tracks, playlists, imports, script, files, now>>

\* A file of the songs directory is renamed out of band.
FsRename(from, to) ==
  /\ from \in DOMAIN files
  /\ from # to
  /\ files' = WriteFile(Unlink(files, from), to, files[from])
  /\ UNCHANGED <<tracks, playlists, imports, script, now, res>>

\* Stream and download requests for every id of the model, interleaved with
\* files appearing, disappearing and changing between the two spellings.
ServeRanges == {None, Some(<<"bytes=", "0", "-">>), Some(<<"bytes=", "-">>)}

NextServe ==
  /\ \/ \E id \in StreamIds : \E range \in ServeRanges : StreamTrack(id, range)
     \/ \E id \in StreamIds : DownloadTrack(id)
     \/ \E name \in SongNames : \E size \in FileSizes(name) :
          FsWrite(name, size)
     \/ \E from \in SongNames : \E to \in SongNames : FsRename(from, to)
     \/ \E name \in SongNames : FsRemove(name)
  /\ UNCHANGED <<before, disk, handles, merge, blocklist, revoked>>

SpecServe == InitLibrary /\ [][NextServe]_vars

----------------------------------------------------------------------------
(* The script's merge next to requests *)

\* What the script makes of one source file: the file, the stored playlist
\* findByUserIdAndName gave it and the playlist it merged or created.
Merged(username, playlistName, sourceTracks) ==
  LET t == ProcessSourceTracks(script.tracks, sourceTracks, <<>>, uuid)
      m == MergePlaylist(script.playlists, playlists, username, playlistName,
                         t.playlistTrackIds, t.uuid, now)
  IN Some([username |-> username, playlistName |-> playlistName,
           sourceTracks |-> sourceTracks,
           stored |-> FindByUserIdAndName(playlists, username, playlistName),
           result |-> m.result])

SpecMergeSources ==
  {x \in SourceTracks : x.local_path = Null \/ x.track_name = "new born"}

\* The owner creates the playlist "mix" and adds a track to it before and
\* while the script merges the source file Mix.json.
NextMerge ==
  \/ /\ \/ CreatePlaylist("u1", "mix")
        \/ \E id \in StoredPlaylistIds :
             AddTracksToPlaylist("u1", id, Some(1), None)
        \/ ScriptStart
        \/ ScriptSaveTracks
        \/ ScriptSavePlaylists
     /\ UNCHANGED <<before, disk, handles, merge, blocklist, revoked>>
  \/ \E sourceTracks \in SeqsUpTo(SpecMergeSources, MaxListLen) :
       /\ ScriptFile("u1", "Mix", sourceTracks)
       /\ merge' = Merged("u1", "Mix", sourceTracks)
       /\ UNCHANGED <<before, disk, handles, blocklist, revoked>>

SpecMerge == InitLibrary /\ [][NextMerge]_vars

----------------------------------------------------------------------------
(* Playlist mutations over time *)

MaxNow == 2

\* Time passes between two requests.
Tick ==
  /\ now < MaxNow
  /\ now' = now + 1
  /\ UNCHANGED <<tracks, playlists, imports, script, files, res>>

\* The owner creates a playlist, adds tracks one by one and in lists, and
\* removes tracks, with time passing in between.
NextTouch ==
  \/ /\ \/ CreatePlaylist("u1", "mix")
        \/ \E id \in StoredPlaylistIds, body \in PlaylistAddBodies :
             AddTracksToPlaylist("u1", id, body.trackId, body.trackIds)
        \/ \E id \in StoredPlaylistIds, trackId \in PlaylistTrackIds :
             RemoveTrackFromPlaylist("u1", id, trackId)
     /\ before' = playlists
     /\ UNCHANGED <<disk, handles, merge, blocklist, revoked>>
  \/ Tick /\ UNCHANGED <<before, disk, handles, merge, blocklist, revoked>>

SpecTouch == InitLibrary /\ [][NextTouch]_vars

----------------------------------------------------------------------------
(* The loaders over every condition of the backing files *)

Load(store) ==
  /\ res' = Response("load", [store |-> store], 0, "NONE",
                     Some(Loader(store, disk)), FALSE, FALSE)
  /\ UNCHANGED <<tracks, playlists, imports, script, files, now, disk>>

\* A backing file changes out of band.
DiskChange(store, f) ==
  /\ disk' = [disk EXCEPT ![store] = f]
  /\ UNCHANGED <<tracks, playlists, imports, script, files, now, res>>

\* tracks.json takes every text of up to MaxTextLen tokens; the other three
\* files a complete document and a document cut short.
Texts(store) ==
  IF store = "tracks.json" THEN SeqsUpTo({"[", "]", "a"}, MaxTextLen)
  ELSE {<<"[", "a", "]">>, <<"[", "a">>}

DiskStates(store) == {Absent, Denied} \cup {File(text) : text \in Texts(store)}

NextLoad ==
  /\ \/ \E store \in Stores : Load(store)
     \/ \E store \in Stores : \E f \in DiskStates(store) : DiskChange(store, f)
  /\ UNCHANGED <<before, handles, merge, blocklist, revoked>>

SpecLoad == InitLibrary /\ [][NextLoad]_vars

----------------------------------------------------------------------------
(* Listings: src/models/trackStore.js, lines 101-139 and 264-284 *)

MaxPage == 3
MaxLimit == 2

\* Math.ceil(total / limit) and Array.prototype.slice(startIndex, endIndex).
Ceil(total, limit) == (total + limit - 1) \div limit

Slice(s, startIndex, endIndex) ==
  LET last == IF endIndex < Len(s) THEN endIndex ELSE Len(s)
  IN IF startIndex >= last THEN <<>> ELSE SubSeq(s, startIndex + 1, last)

\* String.prototype.includes on the lower-cased names of the library and the
\* search words of the model.
SearchWords == {"", "mu", "r", "zz"}

StringIncludes(s, search) ==
  \/ search = ""
  \/ <<s, search>> \in { <<"muse", "mu">>, <<"new born", "r">>,
                         <<"run", "r">>, <<"air", "r">> }

\* The page of items and the pagination block both listings answer with.
Page(items, page, limit) ==
  LET total == Len(items)
      totalPages == Ceil(total, limit)
      startIndex == (page - 1) * limit
      endIndex == startIndex + limit
  IN [data |-> Slice(items, startIndex, endIndex),
      pagination |-> [page |-> page, limit |-> limit, total |-> total,
                      totalPages |-> totalPages,
                      hasNext |-> page < totalPages, hasPrev |-> page > 1]]

\* utils/pagination.js paginate, which the listings do not call: the page is
\* brought into 1..totalPages first.
Paginate(items, page, limit) ==
  LET total == Len(items)
      pages == Ceil(total, limit)
      totalPages == IF pages = 0 THEN 1 ELSE pages
      lower == IF page < totalPages THEN page ELSE totalPages
      safePage == IF lower > 1 THEN lower ELSE 1
  IN [data |-> Slice(items, (safePage - 1) * limit, safePage * limit),
      pagination |-> [page |-> safePage, limit |-> limit, total |-> total,
                      totalPages |-> totalPages,
                      hasNext |-> safePage < totalPages,
                      hasPrev |-> safePage > 1]]

\* trackStore.getAll without sort (the default).
GetAll(ts, page, limit, search) ==
  LET matches(track) ==
        \/ StringIncludes(ToLowerCase(track.trackName), ToLowerCase(search))
        \/ StringIncludes(ToLowerCase(track.artist), ToLowerCase(search))
  IN Page(IF search # "" THEN SelectSeq(ts, matches) ELSE ts, page, limit)

\* playlistStore.getByUserId
GetByUserId(pls, userId, page, limit) ==
  Page(SelectSeq(pls, LAMBDA p : p.userId = userId), page, limit)

\* GET /tracks and GET /playlists; parsePaginationParams hands them a page of
\* at least 1 and a limit of at least 1.
ListTracks(page, limit, search) ==
  /\ res' = Response("GET /tracks",
                     [page |-> page, limit |-> limit, search |-> search],
                     200, "OK", Some(GetAll(tracks, page, limit, search)),
                     FALSE, FALSE)
  /\ UNCHANGED <<tracks, playlists, imports, script, files, now>>

ListPlaylists(userId, page, limit) ==
  LET result == GetByUserId(playlists, userId, page, limit)
      withCount == [i \in DOMAIN result.data |->
                      [playlist |-> result.data[i],
                       trackCount |-> Len(result.data[i].trackIds)]]
  IN /\ res' = Response("GET /playlists",
                        [userId |-> userId, page |-> page, limit |-> limit],
                        200, "OK",
                        Some([data |-> withCount,
                              pagination |-> result.pagination]),
                        FALSE, FALSE)
     /\ UNCHANGED <<tracks, playlists, imports, script, files, now>>

NextList ==
  /\ \/ \E userId \in Users : \E name \in {"mix", "jazz"} :
          CreatePlaylist(userId, name)
     \/ \E page \in 1..MaxPage : \E limit \in 1..MaxLimit :
          \E search \in SearchWords : ListTracks(page, limit, search)
     \/ \E userId \in Users : \E page \in 1..MaxPage :
          \E limit \in 1..MaxLimit : ListPlaylists(userId, page, limit)
  /\ UNCHANGED <<before, disk, handles, merge, blocklist, revoked>>

SpecList == InitLibrary /\ [][NextList]_vars

----------------------------------------------------------------------------
(* Transfers: fs.createReadStream(filePath).pipe(res) in the stream and    *)
(* download handlers, src/unnamed/part_003, lines 169-186 and 259         *)

MaxHandles == 2

\* The descriptors not in use.
FreeFds == (1..MaxHandles) \ {h.fd : h \in handles}

\* The handler answered 200 or 206: it opened the resolved file and piped the
\* read stream into the response. No handler listens for the response's
\* close or for the stream's error.
OpenAndPipe(id) ==
  IF res'.status \in {200, 206}
  THEN /\ FreeFds # {}
       /\ handles' = handles \cup
            {[fd |-> CHOOSE fd \in FreeFds : \A other \in FreeFds : fd <= other,
              file |-> Val(ResolveTrackPath(files,
                             Val(TrackFindById(tracks, id)).filePath)),
              piped |-> TRUE]}
  ELSE UNCHANGED handles

StreamTransfer(id, range) == StreamTrack(id, range) /\ OpenAndPipe(id)

DownloadTransfer(id) == DownloadTrack(id) /\ OpenAndPipe(id)

\* The read stream reaches the end of the file or of the range while piped:
\* it emits 'end' and, autoClose being on, closes its descriptor.
TransferEnd(h) ==
  /\ h \in handles /\ h.piped
  /\ handles' = handles \ {h}
  /\ UNCHANGED <<tracks, playlists, imports, script, files, now, res>>

\* A read fails: the stream is destroyed with the error and its descriptor
\* closed.
TransferError(h) ==
  /\ h \in handles /\ h.piped
  /\ handles' = handles \ {h}
  /\ UNCHANGED <<tracks, playlists, imports, script, files, now, res>>

\* The client goes away during the transfer: the response emits 'close', pipe
\* unpipes the read stream from it and the stream pauses; nothing reads it to
\* its end or destroys it, so it keeps its descriptor.
ClientDisconnect(h) ==
  /\ h \in handles /\ h.piped
  /\ handles' = (handles \ {h}) \cup {[h EXCEPT !.piped = FALSE]}
  /\ UNCHANGED <<tracks, playlists, imports, script, files, now, res>>

Settle(fd) ==
  /\ \E h \in handles :
       /\ h.fd = fd
       /\ TransferEnd(h) \/ TransferError(h) \/ ClientDisconnect(h)
  /\ UNCHANGED <<before, disk, merge, blocklist, revoked>>

NextTransfers ==
  \/ /\ \/ \E id \in {1, GhostId} : \E range \in ServeRanges :
             StreamTransfer(id, range)
        \/ \E id \in {1, GhostId} : DownloadTransfer(id)
     /\ UNCHANGED <<before, disk, merge, blocklist, revoked>>
  \/ \E fd \in 1..MaxHandles : Settle(fd)
  \/ /\ \/ \E name \in SongNames : FsWrite(name, MaxFileSize)
        \/ \E name \in SongNames : FsRemove(name)
     /\ UNCHANGED <<before, disk, handles, merge, blocklist, revoked>>

\* A transfer in progress does not stay in progress for ever: the file ends,
\* a read fails or the client goes away.
SpecTransfers ==
  /\ InitLibrary
  /\ [][NextTransfers]_vars
  /\ \A fd \in 1..MaxHandles : WF_vars(Settle(fd))

----------------------------------------------------------------------------
(* Playlist read endpoints: src/routes/playlists.js, lines 66-121, 447-550 *)

\* GET /playlists/:id
GetPlaylist(userId, id, trackPage, trackLimit) ==
  LET route == "GET /playlists/:id"
      req == [userId |-> userId, id |-> id, trackPage |-> trackPage,
              trackLimit |-> trackLimit]
      playlist == PlaylistFindById(playlists, id)
      paginatedTracks == Paginate(TrackFindByIds(tracks, Val(playlist).trackIds),
                                  trackPage, trackLimit)
  IN /\ res' =
          IF playlist = None
          THEN Response(route, req, 404, "PLAYLIST_NOT_FOUND", None, FALSE, FALSE)
          ELSE IF Val(playlist).userId # userId
          THEN Response(route, req, 403, "FORBIDDEN", None, FALSE, FALSE)
          ELSE Response(route, req, 200, "OK",
                        Some([id |-> Val(playlist).id,
                              name |-> Val(playlist).name,
                              trackCount |-> Len(Val(playlist).trackIds),
                              createdAt |-> Val(playlist).createdAt,
                              updatedAt |-> Val(playlist).updatedAt,
                              tracks |-> paginatedTracks.data,
                              trackPagination |-> paginatedTracks.pagination]),
                        FALSE, FALSE)
     /\ UNCHANGED <<tracks, playlists, imports, script, files, now>>

\* The loop that fills the archive (lines 514-535): a track without filePath
\* or whose filePath, joined to the songs directory as it is stored, does not
\* exist is skipped; the others are numbered from trackNumber on.
RECURSIVE ArchiveEntries(_, _, _)
ArchiveEntries(ts, fs, trackNumber) ==
  IF ts = <<>> THEN <<>>
  ELSE LET track == Head(ts)
       IN IF track.filePath = Null \/ track.filePath \notin DOMAIN fs
          THEN ArchiveEntries(Tail(ts), fs, trackNumber)
          ELSE <<[file |-> track.filePath, id |-> track.id,
                  name |-> <<trackNumber, " - ", track.artist, " - ",
                             track.trackName, ".m4a">>]>>
               \o ArchiveEntries(Tail(ts), fs, trackNumber + 1)

\* GET /playlists/:id/download
DownloadPlaylist(userId, id) ==
  LET route == "GET /playlists/:id/download"
      req == [userId |-> userId, id |-> id]
      playlist == PlaylistFindById(playlists, id)
      found == TrackFindByIds(tracks, Val(playlist).trackIds)
  IN /\ res' =
          IF playlist = None
          THEN Response(route, req, 404, "PLAYLIST_NOT_FOUND", None, FALSE, FALSE)
          ELSE IF Val(playlist).userId # userId
          THEN Response(route, req, 403, "FORBIDDEN", None, FALSE, FALSE)
          ELSE IF Len(found) = 0
          THEN Response(route, req, 400, "EMPTY_PLAYLIST", None, FALSE, FALSE)
          ELSE Response(route, req, 200, "OK",
                        Some([zipFilename |-> <<Val(playlist).name, ".zip">>,
                              entries |-> ArchiveEntries(found, files, 1)]),
                        FALSE, FALSE)
     /\ UNCHANGED <<tracks, playlists, imports, script, files, now>>

\* Both users create a playlist "mix" and the first fills theirs; the second
\* user then sends every request to the first user's playlist and to an id
\* that is not stored; both read their own playlist.
AccessIds == PlaylistIdsOf("u1") \cup {GhostId}

NextAccess ==
  /\ \/ \E userId \in Users : CreatePlaylist(userId, "mix")
     \/ \E id \in PlaylistIdsOf("u1") :
          AddTracksToPlaylist("u1", id, Some(1), None)
     \/ \E id \in AccessIds, body \in PlaylistUpdateBodies :
          UpdatePlaylist("u2", id, body.name, body.trackIds)
     \/ \E id \in AccessIds : DeletePlaylist("u2", id)
     \/ \E id \in AccessIds, body \in PlaylistAddBodies :
          AddTracksToPlaylist("u2", id, body.trackId, body.trackIds)
     \/ \E id \in AccessIds, trackId \in PlaylistTrackIds :
          RemoveTrackFromPlaylist("u2", id, trackId)
     \/ \E userId \in Users, id \in StoredPlaylistIds \cup {GhostId} :
          \/ GetPlaylist(userId, id, 1, MaxLimit)
          \/ DownloadPlaylist(userId, id)
  /\ UNCHANGED <<before, disk, handles, merge, blocklist, revoked>>

SpecAccess == InitLibrary /\ [][NextAccess]_vars

\* The owner fills a playlist and downloads it as a ZIP while the audio file
\* of the library appears and disappears under its two spellings.
NextZip ==
  /\ \/ CreatePlaylist("u1", "mix")
     \/ \E id \in StoredPlaylistIds, trackId \in {1, 2} :
          AddTracksToPlaylist("u1", id, Some(trackId), None)
     \/ \E id \in StoredPlaylistIds, trackId \in {1, 2} :
          RemoveTrackFromPlaylist("u1", id, trackId)
     \/ \E id \in StoredPlaylistIds : DownloadPlaylist("u1", id)
     \/ \E id \in {1, 2} : StreamTrack(id, None)
     \/ \E name \in SongNames : FsWrite(name, MaxFileSize)
     \/ \E name \in SongNames : FsRemove(name)
  /\ UNCHANGED <<before, disk, handles, merge, blocklist, revoked>>

SpecZip == InitLibrary /\ [][NextZip]_vars

----------------------------------------------------------------------------
\* resolveTrackPath applied to every path of the model over every content of
\* the songs directory.
ResolveCall(filePath) ==
  /\ res' = Response("resolveTrackPath", [filePath |-> filePath], 0, "OK",
                     ResolveTrackPath(files, filePath), FALSE, FALSE)
  /\ UNCHANGED <<tracks, playlists, imports, script, files, now>>

ResolveNames == SongNames \cup {"cafe-mixed.m4a", "run.m4a"}

ResolvePaths == ResolveNames \cup {Null, "", "gone.m4a"}

NextResolve ==
  /\ \/ \E filePath \in ResolvePaths : ResolveCall(filePath)
     \/ \E name \in ResolveNames : FsWrite(name, MaxFileSize)
     \/ \E name \in ResolveNames : FsRemove(name)
  /\ UNCHANGED <<before, disk, handles, merge, blocklist, revoked>>

SpecResolve == InitLibrary /\ [][NextResolve]_vars

----------------------------------------------------------------------------
(* Refresh tokens and the token blocklist: src/routes/auth.js, lines 32-57, *)
(* 140-300 and 333-407; the sweep's schedule: src/unnamed/part_006, 99-106  *)

MsPerSec == 1000   \* decoded.exp is in seconds, Date.now() in milliseconds

MaxSec == 2        \* last second the clock of the token model reaches

MaxBlocklist == 2  \* most entries the blocklist file holds

\* The instants the clock visits: one millisecond before, at and after every
\* whole second.
Instants ==
  {t \in UNION {{s * MsPerSec - 1, s * MsPerSec, s * MsPerSec + 1} :
                  s \in 0..MaxSec} : t >= 0}

\* A refresh token as generateTokens signs it; exp is in seconds.
RefreshToken(jti, sub, exp) ==
  [secret |-> "refresh", type |-> "refresh", jti |-> jti, sub |-> sub,
   exp |-> exp]

\* What a client can send: refresh tokens of the two users, one of a user
\* that is no longer in users.json, an access token and a string that is no
\* token.
Tokens ==
  { RefreshToken("j1", "u1", 1), RefreshToken("j2", "u2", MaxSec),
    RefreshToken("j3", "u0", MaxSec),
    [secret |-> "access", type |-> "access", jti |-> Null, sub |-> "u1",
     exp |-> 1],
    [secret |-> "none", type |-> Null, jti |-> Null, sub |-> Null,
     exp |-> 0] }

\* jwt.verify(token, config.jwt.refreshSecret): the signature first, then
\* the exp claim against the clock in whole seconds.
JwtVerify(token, time) ==
  IF token.secret # "refresh" THEN Thrown("JsonWebTokenError")
  ELSE IF time \div MsPerSec >= token.exp THEN Thrown("TokenExpiredError")
  ELSE Returned(token)

AddToBlocklist(bl, tokenId, expiresAt, time) ==
  Append(bl, [tokenId |-> tokenId, expiresAt |-> expiresAt,
              blockedAt |-> time])

IsBlocklisted(bl, tokenId) ==
  \E i \in 1..Len(bl) : bl[i].tokenId = tokenId

CleanupExpiredEntriesAlwaysSave(bl, time) ==
  [file |-> SelectSeq(bl, LAMBDA entry : entry.expiresAt > time),
   wrote |-> TRUE]

CleanupExpiredEntriesEarly(bl, time) ==
  LET cleaned == SelectSeq(bl, LAMBDA entry : entry.expiresAt > time + MsPerSec)
  IN [file |-> cleaned, wrote |-> Len(cleaned) # Len(bl)]

CleanupExpiredEntries(bl, time) ==
  LET cleaned == SelectSeq(bl, LAMBDA entry : entry.expiresAt > time)
  IN [file |-> cleaned, wrote |-> Len(cleaned) # Len(bl)]

\* POST /auth/refresh
Refresh(refreshToken) ==
  LET route == "POST /auth/refresh"
      req == [refreshToken |-> refreshToken]
      decoded == JwtVerify(refreshToken, now)
      answer(status, code) ==
        Response(route, req, status, code, Null, FALSE, FALSE)
  IN /\ res' =
          IF decoded.threw
            THEN IF decoded.code = "TokenExpiredError"
                   THEN answer(401, "REFRESH_TOKEN_EXPIRED")
                   ELSE answer(401, "REFRESH_TOKEN_INVALID")
          ELSE IF decoded.value.type # "refresh"
            THEN answer(401, "INVALID_TOKEN_TYPE")
          ELSE IF IsBlocklisted(blocklist, decoded.value.jti)
            THEN answer(401, "REFRESH_TOKEN_REVOKED")
          ELSE IF decoded.value.sub \notin Users
            THEN answer(401, "USER_NOT_FOUND")
          ELSE answer(200, Null)
     /\ UNCHANGED <<tracks, playlists, imports, script, files, now, before,
                    disk, handles, merge, blocklist, revoked>>

\* POST /auth/logout
Logout(refreshToken) ==
  LET route == "POST /auth/logout"
      req == [refreshToken |-> refreshToken]
      decoded == JwtVerify(refreshToken, now)
      blocks == ~decoded.threw /\ decoded.value.jti # Null
  IN /\ blocks => Len(blocklist) < MaxBlocklist
     /\ blocklist' =
          IF blocks
            THEN AddToBlocklist(blocklist, decoded.value.jti,
                                decoded.value.exp * MsPerSec, now)
            ELSE blocklist
     /\ revoked' = IF blocks THEN revoked \cup {decoded.value.jti} ELSE revoked
     /\ res' = Response(route, req, 200, Null, Null, FALSE, FALSE)
     /\ UNCHANGED <<tracks, playlists, imports, script, files, now, before,
                    disk, handles, merge>>

\* The sweep app.listen runs at startup and then every hour.
Cleanup ==
  LET r == CleanupExpiredEntries(blocklist, now)
  IN /\ blocklist' = IF r.wrote THEN r.file ELSE blocklist
     /\ res' = Response("cleanupExpiredEntries", <<>>, 0, Null,
                        [wrote |-> r.wrote], FALSE, FALSE)
     /\ UNCHANGED <<tracks, playlists, imports, script, files, now, before,
                    disk, handles, merge, revoked>>

\* Time passes.
Advance ==
  /\ \E t \in Instants : t > now /\ now' = t
  /\ UNCHANGED <<tracks, playlists, imports, script, files, res, before,
                 disk, handles, merge, blocklist, revoked>>

NextAuth ==
  \/ \E refreshToken \in Tokens : Refresh(refreshToken)
  \/ \E refreshToken \in Tokens : Logout(refreshToken)
  \/ Cleanup
  \/ Advance

SpecAuth == Init /\ [][NextAuth]_vars

----------------------------------------------------------------------------
(* The server alone: concurrent imports beside the playlist routes *)

MaxConcurrentImports == 2   \* import requests suspended at once in SpecServer

\* Two spellings of one (artist, trackName) pair and a second pair.
ServerKeys == {Starlight, StarlightUpper, NewBorn}

ServerRequest ==
  \/ \E key \in ServerKeys :
       ImportBeginUpTo(key.artist, key.trackName, MaxConcurrentImports)
  \/ \E i \in 1..Len(imports), size \in DownloadSizes : ImportDownloadOk(i, size)
  \/ \E i \in 1..Len(imports) : ImportDownloadFail(i)
  \/ CreatePlaylist("u1", "mix")
  \/ \E id \in StoredPlaylistIds, trackId \in KnownTrackIds :
       AddTracksToPlaylist("u1", id, Some(trackId), None)
  \/ \E id \in StoredPlaylistIds, trackId \in KnownTrackIds :
       RemoveTrackFromPlaylist("u1", id, trackId)
  \/ \E id \in StoredPlaylistIds : DeletePlaylist("u1", id)

NextServer ==
  /\ ServerRequest
  /\ UNCHANGED <<before, disk, handles, merge, blocklist, revoked>>

SpecServer == Init /\ [][NextServer]_vars

----------------------------------------------------------------------------
(* Direct calls of the track store's insert operations, with the number of  *)
(* getAllTracks and saveAllTracks calls each one made                       *)

Saves(r) == IF r.wrote THEN 1 ELSE 0

\* trackStore.addTrack(track), the track built with its own uuidv4() id.
TrackStoreAddTrack(key) ==
  LET track == [id |-> uuid + 1, trackName |-> key.trackName,
                artist |-> key.artist, filePath |-> Null]
      r == TrackAddTrack(tracks, track)
  IN /\ uuid < MaxUuid
     /\ tracks' = r.file
     /\ res' = Response("trackStore.addTrack", [track |-> track], 0, "OK",
                        [result |-> r.result, loads |-> r.loads,
                         saves |-> Saves(r)], FALSE, r.wrote)
     /\ UNCHANGED <<playlists, imports, script, files, now>>

\* trackStore.addTracks(newTracks)
TrackStoreAddTracksCounted(batch) ==
  LET newTracks == [i \in 1..Len(batch) |->
                      [id |-> uuid + i, trackName |-> batch[i].trackName,
                       artist |-> batch[i].artist, filePath |-> Null]]
      r == TrackAddTracks(tracks, newTracks)
  IN /\ uuid + Len(batch) <= MaxUuid
     /\ tracks' = r.file
     /\ res' = Response("trackStore.addTracks", [batch |-> batch], 0, "OK",
                        [result |-> r.result, loads |-> r.loads,
                         saves |-> Saves(r)], FALSE, r.wrote)
     /\ UNCHANGED <<playlists, imports, script, files, now>>

NextStoreCalls ==
  /\ \/ \E key \in TrackKeys : TrackStoreAddTrack(key)
     \/ \E batch \in SeqsUpTo(TrackKeys, MaxListLen) :
          TrackStoreAddTracksCounted(batch)
  /\ UNCHANGED <<before, disk, handles, merge, blocklist, revoked>>

SpecStoreCalls == Init /\ [][NextStoreCalls]_vars

----------------------------------------------------------------------------
(* One run of the script over two source files of one user whose names are  *)
(* equal ignoring case                                                      *)

\* The owner creates the playlist "mix"; the script then finds mix.json and
\* Mix.json in the owner's directory.
NextTwoFiles ==
  \/ /\ \/ CreatePlaylist("u1", "mix")
        \/ ScriptStart
        \/ ScriptSaveTracks
        \/ ScriptSavePlaylists
     /\ UNCHANGED <<before, disk, handles, merge, blocklist, revoked>>
  \/ \E playlistName \in {"mix", "Mix"},
        sourceTracks \in SeqsUpTo(SpecMergeSources, MaxListLen) :
       /\ ScriptFile("u1", playlistName, sourceTracks)
       /\ merge' = Merged("u1", playlistName, sourceTracks)
       /\ UNCHANGED <<before, disk, handles, blocklist, revoked>>

SpecTwoFiles == InitLibrary /\ [][NextTwoFiles]_vars

----------------------------------------------------------------------------
(* The server's requests during a run of the import script *)

\* An import of one track and the owner's playlist requests, beside a run of
\* the script over the source file mix.json.
NextDuringScript ==
  /\ \/ ImportBegin(Starlight.artist, Starlight.trackName)
     \/ \E i \in 1..Len(imports), size \in DownloadSizes :
          ImportDownloadOk(i, size)
     \/ CreatePlaylist("u1", "mix")
     \/ \E id \in StoredPlaylistIds :
          AddTracksToPlaylist("u1", id, Some(1), None)
     \/ Scripts({"u1"}, {"mix"}, SpecMergeSources)
  /\ UNCHANGED <<before, disk, handles, merge, blocklist, revoked>>

SpecDuringScript == InitLibrary /\ [][NextDuringScript]_vars

----------------------------------------------------------------------------
(* Direct calls of playlistStore.update: src/models/trackStore.js, 325-350 *)

\* The updates objects of the calls: a name or a trackIds list, alone or
\* together with the keys id, userId and createdAt.
StoreUpdates ==
  {[name |-> y[1], trackIds |-> y[2], id |-> x[1], userId |-> x[2],
    createdAt |-> x[3]] :
     y \in {<<"jazz", None>>, <<Null, Some(<<1>>)>>},
     x \in {<<None, None, None>>, <<Some(GhostId), Some("u2"), Some(1)>>}}

\* playlistStore.update(id, userId, updates)
PlaylistStoreUpdate(id, userId, updates) ==
  LET r == PlaylistUpdate(playlists, id, userId, updates, now)
  IN /\ playlists' = r.file
     /\ res' = Response("playlistStore.update",
                        [id |-> id, userId |-> userId, updates |-> updates],
                        0, "OK", r.result, r.wrote, FALSE)
     /\ UNCHANGED <<tracks, imports, script, files, now>>

NextUpdate ==
  /\ \/ \E userId \in Users : CreatePlaylist(userId, "mix")
     \/ \E id \in KnownPlaylistIds, userId \in Users,
           updates \in StoreUpdates : PlaylistStoreUpdate(id, userId, updates)
  /\ UNCHANGED <<before, disk, handles, merge, blocklist, revoked>>

SpecUpdate == InitLibrary /\ [][NextUpdate]_vars

----------------------------------------------------------------------------
(* Properties *)

NoDuplicates(s) == \A i, j \in 1..Len(s) : s[i] = s[j] => i = j

StoredTrackIds == {tracks[i].id : i \in 1..Len(tracks)}

\* The playlist a response's request names, in the playlists file pls.
Target(pls, r) == PlaylistFindById(pls, r.req.id)

MutatingRoutes ==
  {"PUT /playlists/:id", "DELETE /playlists/:id", "POST /playlists/:id/tracks",
   "DELETE /playlists/:id/tracks/:trackId"}

\* C1: no stored playlist's trackIds contains the same track id twice.
C1_NoDuplicateTrackIds ==
  \A i \in 1..Len(playlists) : NoDuplicates(playlists[i].trackIds)

\* The ids of list that are not in present, in the order of their first
\* occurrence in list.
NewInOrder(list, present) ==
  LET F[k \in 0..Len(list)] ==
        IF k = 0 THEN <<>>
        ELSE IF list[k] \notin Range(present)
                /\ \A j \in 1..(k - 1) : list[j] # list[k]
        THEN Append(F[k - 1], list[k])
        ELSE F[k - 1]
  IN F[Len(list)]

\* The id list a POST /playlists/:id/tracks request asks to add.
RequestedIds(req) ==
  IF req.trackIds # None /\ Len(Val(req.trackIds)) > 0
  THEN Val(req.trackIds) ELSE <<Val(req.trackId)>>

\* C2: a successful add to an owned playlist with trackIds T and input list L
\* leaves T followed by the ids of L not in T, in order of first occurrence.
C2_AddAppendsNewInOrder ==
  [][(res'.route = "POST /playlists/:id/tracks" /\ res'.status = 200)
     => LET T == Val(Target(playlists, res')).trackIds
            L == RequestedIds(res'.req)
        IN /\ Val(Target(playlists', res')).trackIds = T \o NewInOrder(L, T)
           /\ Val(res'.data).trackIds = T \o NewInOrder(L, T)]_vars

\* A list <<a, b>> was added to a playlist that held b and not a: b kept its
\* place and a was appended behind it.
C2_Witness ==
  /\ res.route = "POST /playlists/:id/tracks"
  /\ res.status = 200
  /\ res.req.trackIds # None
  /\ Len(Val(res.req.trackIds)) = 2
  /\ Val(res.req.trackIds)[1] # Val(res.req.trackIds)[2]
  /\ Val(res.data).trackIds
       = <<Val(res.req.trackIds)[2], Val(res.req.trackIds)[1]>>

\* The request of response r names a stored playlist of another user.
NonOwner(pls, r) ==
  /\ Target(pls, r) # None
  /\ Val(Target(pls, r)).userId # r.req.userId

\* C3: a mutating call that reaches the playlist store with a userId other
\* than the stored playlist's answers not-found and leaves the playlists file
\* unchanged.
C3_NonOwnerNotFound ==
  [][(/\ res'.route \in MutatingRoutes
      /\ res'.code \in {"OK", "PLAYLIST_NOT_FOUND"}
      /\ NonOwner(playlists, res'))
     => /\ res'.code = "PLAYLIST_NOT_FOUND"
        /\ res'.status = 404
        /\ res'.data = None
        /\ ~res'.wrotePlaylists
        /\ playlists' = playlists]_vars

\* A non-owner's PUT with a trackIds list was answered not-found.
C3_Witness ==
  /\ res.route = "PUT /playlists/:id"
  /\ res.code = "PLAYLIST_NOT_FOUND"
  /\ res.req.trackIds # None
  /\ NonOwner(playlists, res)

\* C4: no two stored playlists of one user have names equal ignoring case.
C4_UniqueNamesPerOwner ==
  \A i, j \in 1..Len(playlists) :
    (/\ i # j
     /\ playlists[i].userId = playlists[j].userId)
    => ToLowerCase(playlists[i].name) # ToLowerCase(playlists[j].name)

\* C5: no two stored tracks have the same (artist, trackName) ignoring case.
C5_UniqueArtistAndName ==
  \A i, j \in 1..Len(tracks) :
    i # j => \/ ToLowerCase(tracks[i].artist) # ToLowerCase(tracks[j].artist)
             \/ ToLowerCase(tracks[i].trackName)
                  # ToLowerCase(tracks[j].trackName)

\* An import finished for a pair that is stored under another spelling, and
\* the file holds one track of that pair.
C5_Witness ==
  /\ res.route = "POST /tracks/import"
  /\ res.status = 201
  /\ \E i \in 1..Len(tracks) :
       /\ tracks[i].artist # res.req.artist
       /\ ToLowerCase(tracks[i].artist) = ToLowerCase(res.req.artist)
       /\ tracks[i].trackName = res.req.trackName

\* The stored tracks of ts with the (artist, trackName) of key, ignoring case.
Matching(ts, key) ==
  {i \in 1..Len(ts) :
     /\ ToLowerCase(ts[i].artist) = ToLowerCase(key.artist)
     /\ ToLowerCase(ts[i].trackName) = ToLowerCase(key.trackName)}

\* C6: trackStore.addTrack with a track whose pair is stored, ignoring case,
\* returns the stored track and writes nothing; afterwards one track of that
\* pair is stored.
C6_AddTrackIdempotent ==
  [][(/\ res'.route = "POST /tracks/import"
      /\ res'.status = 201
      /\ Len(imports') < Len(imports))
     => /\ Matching(tracks, res'.req) # {}
           => /\ tracks' = tracks
              /\ ~res'.wroteTracks
              /\ \E i \in Matching(tracks, res'.req) :
                   res'.data = Some(tracks[i])
        /\ Cardinality(Matching(tracks', res'.req)) = 1]_vars

\* addTrack was called for a pair stored under another spelling and returned
\* the stored track without a write.
C6_Witness ==
  /\ res.route = "POST /tracks/import"
  /\ res.status = 201
  /\ ~res.wroteTracks
  /\ Val(res.data).artist # res.req.artist
  /\ \E i \in 1..Len(tracks) : tracks[i] = Val(res.data)

\* C7: every id in every stored playlist's trackIds is the id of a stored
\* track.
C7_TrackIdsStored ==
  \A i \in 1..Len(playlists) : Range(playlists[i].trackIds) \subseteq StoredTrackIds

\* Stream steps leave the songs directory alone and answer on the stream route.
StreamStep == files' = files /\ res'.route = "GET /tracks/:id/stream"

\* The decimal value of a sequence of digits.
RECURSIVE Decimal(_)
Decimal(ds) ==
  IF ds = <<>> THEN 0
  ELSE 10 * Decimal(SubSeq(ds, 1, Len(ds) - 1)) + DigitValue(ds[Len(ds)])

\* A header of the form bytes=<start>-<end>: "bytes=", one or more digits, one
\* dash, and digits or nothing.
WellFormedRange(h) ==
  /\ Len(h) >= 3
  /\ h[1] = "bytes="
  /\ h[2] \in Digits
  /\ Cardinality({i \in 2..Len(h) : h[i] = "-"}) = 1
  /\ \A i \in 2..Len(h) : h[i] \in Digits \cup {"-"}

DashAt(h) == CHOOSE i \in 2..Len(h) : h[i] = "-"

\* The size of the file a stored track resolves to, -1 when it resolves to none.
ResolvedSize(fs, id) ==
  LET track == TrackFindById(tracks, id)
      path == IF track = None THEN None
              ELSE ResolveTrackPath(fs, Val(track).filePath)
  IN IF path = None THEN -1 ELSE fs[Val(path)]

\* C8: for a resolved file of N bytes and a Range header bytes=<start>-<end>,
\* the end being N-1 when omitted, the stream endpoint answers 416
\* RANGE_NOT_SATISFIABLE exactly when start >= N or end >= N or start > end,
\* and otherwise 206 with Content-Range start-end/N and Content-Length
\* end-start+1, so that every 206 has 0 <= start <= end < N.
C8_RangeValidation ==
  [][(/\ StreamStep
      /\ res'.req.range # None
      /\ WellFormedRange(Val(res'.req.range))
      /\ ResolvedSize(files, res'.req.id) >= 0)
     => LET r == res'
            h == Val(r.req.range)
            N == ResolvedSize(files, r.req.id)
            ds == SubSeq(h, 2, DashAt(h) - 1)
            de == SubSeq(h, DashAt(h) + 1, Len(h))
            start == Decimal(ds)
            end == IF de = <<>> THEN N - 1 ELSE Decimal(de)
            rejected == start >= N \/ end >= N \/ start > end
        IN /\ r.status \in {206, 416}
           /\ (r.status = 416) <=> rejected
           /\ r.status = 416 => r.code = "RANGE_NOT_SATISFIABLE"
           /\ r.status = 206 =>
                /\ Val(r.data).rangeStart = start
                /\ Val(r.data).rangeEnd = end
                /\ Val(r.data).rangeSize = N
                /\ Val(r.data).contentLength = end - start + 1
                /\ 0 <= start /\ start <= end /\ end < N]_vars

\* A two-byte file asked for bytes 0-2 is rejected, the end being past the file.
C8_Witness ==
  /\ res.route = "GET /tracks/:id/stream"
  /\ res.req.range = Some(<<"bytes=", "0", "-", "2">>)
  /\ ResolvedSize(files, res.req.id) = 2
  /\ res.status = 416

\* The spellings under which the resolver looks for a stored path.
Candidates(filePath) == {filePath, Nfc(filePath), Nfd(filePath)}

Resolvable(fs, track) ==
  /\ track.filePath # Null
  /\ Candidates(track.filePath) \cap DOMAIN fs # {}

\* The orders in which a request may go through the stages.
StageOrders ==
  { <<"RESOLVE_TRACK">>,
    <<"RESOLVE_TRACK", "RESOLVE_FILE">>,
    <<"RESOLVE_TRACK", "RESOLVE_FILE", "FULL_RESPONSE">>,
    <<"RESOLVE_TRACK", "RESOLVE_FILE", "VALIDATE_RANGE">>,
    <<"RESOLVE_TRACK", "RESOLVE_FILE", "VALIDATE_RANGE", "PARTIAL_RESPONSE">>,
    <<"RESOLVE_TRACK", "RESOLVE_FILE", "VALIDATE_RANGE", "RANGE_ERROR">> }

\* C9: a stream request goes through RESOLVE_TRACK, RESOLVE_FILE and range
\* handling in that order and gives one answer: 404 TRACK_NOT_FOUND for an
\* unknown id and 404 FILE_NOT_FOUND for a track without filePath or with an
\* unresolvable file, whatever the Range header; 200, 206 and 416 are given
\* only with a resolved file, 200 exactly when there is no Range, with the
\* file size as Content-Length.
C9_StreamStateMachine ==
  [][StreamStep =>
       LET r == res'
           track == Find(tracks, LAMBDA t : t.id = r.req.id)
           stages == Val(r.data).stages
           noRange == r.req.range = None \/ r.req.range = Some(<<>>)
       IN /\ stages \in StageOrders
          /\ track = None =>
               /\ r.status = 404 /\ r.code = "TRACK_NOT_FOUND"
               /\ stages = <<"RESOLVE_TRACK">>
          /\ (track # None /\ ~Resolvable(files, Val(track))) =>
               /\ r.status = 404 /\ r.code = "FILE_NOT_FOUND"
               /\ stages = <<"RESOLVE_TRACK", "RESOLVE_FILE">>
          /\ r.status \in {200, 206, 416} =>
               /\ track # None /\ Resolvable(files, Val(track))
               /\ Len(stages) >= 3
               /\ (r.status = 200) <=> noRange
               /\ (r.status = 200) <=> (stages[3] = "FULL_RESPONSE")
               /\ (r.status = 206) <=> (stages[Len(stages)] = "PARTIAL_RESPONSE")
               /\ (r.status = 416) <=> (stages[Len(stages)] = "RANGE_ERROR")
               /\ r.status = 200 =>
                    Val(r.data).contentLength
                      = ResolvedSize(files, r.req.id)
          /\ (track # None /\ Resolvable(files, Val(track)) /\ noRange) =>
               r.status = 200]_vars

\* A file that exists only under the NFD spelling of the stored path is
\* resolved and streamed in full to a request without Range header.
C9_Witness ==
  /\ res.route = "GET /tracks/:id/stream"
  /\ res.req.id = 1
  /\ res.req.range = None
  /\ res.status = 200
  /\ DOMAIN files = {"cafe-nfd.m4a"}
  /\ Val(res.data).contentLength = files["cafe-nfd.m4a"]

\* Every playlist of the file old is in the file new, with its owner, its name
\* and each of its track ids.
KeptBy(old, new) ==
  \A i \in 1..Len(old) :
    \E j \in 1..Len(new) :
      /\ new[j].id = old[i].id
      /\ new[j].userId = old[i].userId
      /\ new[j].name = old[i].name
      /\ Range(old[i].trackIds) \subseteq Range(new[j].trackIds)

\* The write that ends a run of the import script.
ScriptSaveStep == script.pc = "savePlaylists" /\ script'.pc = "idle"

\* A step of the server: the script stays where it is.
RequestStep == script' = script

\* C10, as amended: requests served by the server do not interleave their
\* loads and saves. Each playlist store call loads, changes and saves the file
\* in one synchronous step, so a create or add request stores its own mutation
\* on top of every earlier one; a stored playlist or track id is dropped only
\* by the save that ends a run of the import script.
C10_RequestsKeepMutations ==
  [][/\ ~KeptBy(playlists, playlists') => ScriptSaveStep
     /\ (RequestStep /\ res'.route = "POST /playlists/:id/tracks"
           /\ res'.status = 200)
        => Range(RequestedIds(res'.req))
             \subseteq Range(Val(Target(playlists', res')).trackIds)]_vars

\* A request added a track to a playlist that already held one stored by an
\* earlier request, and the file holds both.
C10_Witness ==
  /\ res.route = "POST /playlists/:id/tracks"
  /\ res.status = 200
  /\ Target(before, res) # None
  /\ Len(Val(Target(before, res)).trackIds) = 1
  /\ Target(playlists, res) # None
  /\ Len(Val(Target(playlists, res)).trackIds) = 2
  /\ KeptBy(before, playlists)

\* C10, as stated: two requests on the same playlists file interleave as
\* load A, load B, save A, save B, so that at some point the save of a request
\* drops what an earlier request stored.
C10_RequestDropsMutation == <>(~KeptBy(before, playlists))

\* A run of the script that loaded before a request was served saves its
\* snapshot over the request's playlist.
C10_ScriptDrops ==
  /\ res.route = "POST /playlists/:id/tracks"
  /\ res.status = 200
  /\ Target(playlists, res) = None

----------------------------------------------------------------------------
(* Path resolver *)

\* The spellings resolveTrackPath tries, in its order.
TriedPaths(filePath) == <<filePath, Nfc(filePath), Nfd(filePath)>>

ExistingAt(fs, filePath) ==
  {i \in 1..3 : TriedPaths(filePath)[i] \in DOMAIN fs}

ResolveStep == res' # res /\ res'.route = "resolveTrackPath"

\* C11: resolveTrackPath returns the first of the path as given, its NFC form
\* and its NFD form that exists under the songs root, null when none exists or
\* when the path is missing or empty, and leaves the songs directory as it was.
C11_ResolveOrder ==
  [][ResolveStep =>
       LET filePath == res'.req.filePath
           existing == ExistingAt(files, filePath)
       IN /\ files' = files
          /\ (filePath \in {Null, ""} \/ existing = {}) => res'.data = None
          /\ (filePath \notin {Null, ""} /\ existing # {}) =>
               \E i \in existing :
                 /\ \A j \in existing : i <= j
                 /\ res'.data = Some(TriedPaths(filePath)[i])]_vars

\* A path in neither normal form was resolved while both normal forms existed
\* and the path itself did not: the NFC spelling was returned.
C11_Witness ==
  /\ res.route = "resolveTrackPath"
  /\ res.req.filePath = "cafe-mixed.m4a"
  /\ "cafe-mixed.m4a" \notin DOMAIN files
  /\ {"cafe-nfc.m4a", "cafe-nfd.m4a"} \subseteq DOMAIN files
  /\ res.data = Some("cafe-nfc.m4a")

ServeRoutes == {"GET /tracks/:id/stream", "GET /tracks/:id/download"}

ServeStep == files' = files /\ res'.route \in ServeRoutes

\* C12: whatever out-of-band changes of the songs directory and whatever
\* requests came before, a stream or download request finds the file exactly
\* when the track is stored with a path of which some spelling exists in the
\* songs directory at the time of this request.
C12_ResolvedOnEveryRequest ==
  [][ServeStep =>
       LET track == Find(tracks, LAMBDA t : t.id = res'.req.id)
           notFound == res'.status = 404
       IN /\ notFound <=> ~(track # None /\ Resolvable(files, Val(track)))
          /\ (res'.route = "GET /tracks/:id/download" /\ ~notFound) =>
               /\ Val(res'.data).file
                    \in Candidates(Val(track).filePath) \cap DOMAIN files
               /\ Val(res'.data).contentLength = files[Val(res'.data).file]]_vars

\* The songs directory, empty at first, came to hold the file under the NFD
\* spelling only, and a download request found it there.
C12_Witness ==
  /\ res.route = "GET /tracks/:id/download"
  /\ res.status = 200
  /\ Val(res.data).file = "cafe-nfd.m4a"
  /\ DOMAIN files = {"cafe-nfd.m4a"}

----------------------------------------------------------------------------
(* Listings *)

ListStep ==
  /\ playlists' = playlists
  /\ res'.route \in {"GET /tracks", "GET /playlists"}

\* The items a listing request pages over: the tracks matching the search
\* word, or the playlists of the requesting user.
Listed(r) ==
  IF r.route = "GET /tracks"
  THEN SelectSeq(tracks,
         LAMBDA t : \/ StringIncludes(t.trackName, r.req.search)
                    \/ StringIncludes(t.artist, r.req.search))
  ELSE SelectSeq(playlists, LAMBDA p : p.userId = r.req.userId)

\* The items of a response: tracks as they are, playlists without the count.
ItemsOf(r) ==
  IF r.route = "GET /tracks" THEN Val(r.data).data
  ELSE [i \in DOMAIN Val(r.data).data |-> Val(r.data).data[i].playlist]

\* C13: a listing request for a page beyond totalPages is answered with the
\* items of the last page and with the last page's number.
C13_PageClamped ==
  [][ListStep =>
       LET r == res'
           items == Listed(r)
           limit == r.req.limit
           totalPages == Ceil(Len(items), limit)
       IN (totalPages >= 1 /\ r.req.page > totalPages) =>
            /\ Val(r.data).pagination.page = totalPages
            /\ ItemsOf(r) = SubSeq(items, (totalPages - 1) * limit + 1,
                                   Len(items))]_vars

----------------------------------------------------------------------------
(* Store loaders *)

LoadStep == disk' = disk /\ res'.route = "load"

\* A text is a whole document when it is "[", items, "]".
WholeDocument(text) ==
  \E items \in SeqsUpTo({"a"}, MaxTextLen + 1) : text = <<"[">> \o items \o <<"]">>

\* C14: each of the four loaders returns the empty collection when its file
\* does not exist, throws when the file cannot be read or does not parse, and
\* otherwise returns every item of the document: never a part of it.
C14_LoaderAllOrNothing ==
  [][LoadStep =>
       LET f == disk[res'.req.store]
           out == Val(res'.data)
       IN /\ f = Absent => (~out.threw /\ out.value = <<>>)
          /\ f = Denied => (out.threw /\ out.code = "EACCES")
          /\ (f.cond = "file" /\ ~WholeDocument(f.text)) =>
               (out.threw /\ out.code # "ENOENT")
          /\ (f.cond = "file" /\ WholeDocument(f.text)) =>
               (~out.threw /\ <<"[">> \o out.value \o <<"]">> = f.text)]_vars

\* tracks.json held a document cut short after its first item, and the loader
\* threw instead of returning that item.
C14_Witness ==
  /\ res.route = "load"
  /\ res.req.store = "tracks.json"
  /\ disk["tracks.json"] = File(<<"[", "a">>)
  /\ Val(res.data).threw

----------------------------------------------------------------------------
(* Playlist mutations over time *)

AddStep ==
  /\ now' = now
  /\ res'.route = "POST /playlists/:id/tracks"
  /\ res'.status = 200

\* C15: an add request, of one id or of a list, whose ids are all in the
\* playlist already leaves the playlists file, updatedAt included, as it was,
\* and one that appended an id sets updatedAt.
C15_TouchOnlyOnAppend ==
  [][AddStep =>
       LET old == Val(Target(playlists, res'))
           new == Val(Target(playlists', res'))
       IN IF Range(RequestedIds(res'.req)) \subseteq Range(old.trackIds)
          THEN playlists' = playlists
          ELSE new.updatedAt = now]_vars

RemoveStep ==
  /\ now' = now
  /\ res'.route = "DELETE /playlists/:id/tracks/:trackId"
  /\ res'.status = 200

\* The index of id in a list without repeats.
IndexOf(s, id) == CHOOSE i \in 1..Len(s) : s[i] = id

\* C16: removeTrack on an owned playlist leaves exactly the other ids, in the
\* order they had, sets updatedAt to the time of the call and saves the file,
\* whether or not the id was in the playlist; nothing else in the file
\* changes.
C16_RemoveKeepsOrderAndTouches ==
  [][RemoveStep =>
       LET old == Val(Target(playlists, res'))
           new == Val(Target(playlists', res'))
           id == res'.req.trackId
       IN /\ old.userId = res'.req.userId
          /\ Range(new.trackIds) = Range(old.trackIds) \ {id}
          /\ NoDuplicates(old.trackIds) =>
               /\ NoDuplicates(new.trackIds)
               /\ \A a, b \in Range(new.trackIds) :
                    IndexOf(new.trackIds, a) < IndexOf(new.trackIds, b)
                      <=> IndexOf(old.trackIds, a) < IndexOf(old.trackIds, b)
          /\ new.updatedAt = now
          /\ res'.wrotePlaylists
          /\ Val(res'.data) = new
          /\ new = [old EXCEPT !.trackIds = new.trackIds,
                               !.updatedAt = new.updatedAt]
          /\ Len(playlists') = Len(playlists)
          /\ \A i \in 1..Len(playlists) :
               playlists[i].id # res'.req.id => playlists'[i] = playlists[i]]_vars

\* A track that was not in the playlist was removed from it after time had
\* passed: the ids are as before and updatedAt is the time of the call.
C16_Witness ==
  /\ res.route = "DELETE /playlists/:id/tracks/:trackId"
  /\ res.status = 200
  /\ Target(before, res) # None
  /\ Val(Target(before, res)).trackIds = <<1, 2>>
  /\ res.req.trackId = GhostId
  /\ Target(playlists, res) # None
  /\ Val(Target(playlists, res)).trackIds = <<1, 2>>
  /\ Val(Target(playlists, res)).updatedAt > Val(Target(before, res)).updatedAt

----------------------------------------------------------------------------
(* Import-merge *)

MergeStep ==
  script.pc = "files" /\ script'.pc = "files" /\ script'.done # script.done

\* The id under which the script holds a source track after the file was
\* processed: that of the track with the same artist and name ignoring case.
SourceId(ts, sourceTrack) ==
  LET i == CHOOSE i \in 1..Len(ts) :
             /\ ToLowerCase(ts[i].artist) = ToLowerCase(sourceTrack.artist)
             /\ ToLowerCase(ts[i].trackName) = ToLowerCase(sourceTrack.track_name)
  IN ts[i].id

\* The track ids of a source file in source order; entries without artist or
\* name have none.
SourceIds(ts, sourceTracks) ==
  LET valid == SelectSeq(sourceTracks,
                 LAMBDA x : x.artist # Null /\ x.track_name # Null)
  IN [i \in 1..Len(valid) |-> SourceId(ts, valid[i])]

\* C17: the script's merge of one source file. When a playlist of the user
\* with the file's name ignoring case is stored, the merged playlist is that
\* playlist with its trackIds as stored followed by the file's track ids that
\* were not among them, in source order; it takes the stored playlist's place
\* in the script's array when the script had loaded that playlist. When none
\* is stored, a new playlist is appended to the script's array whose trackIds
\* are the file's track ids in source order, each at its first occurrence.
C17_ImportMerge ==
  [][MergeStep =>
       LET f == Val(merge')
           S == SourceIds(script'.tracks, f.sourceTracks)
           stored == Find(playlists,
                       LAMBDA p : /\ p.userId = f.username
                                  /\ ToLowerCase(p.name)
                                       = ToLowerCase(f.playlistName))
       IN IF stored # None
          THEN /\ f.result.id = Val(stored).id
               /\ f.result.name = Val(stored).name
               /\ f.result.trackIds
                    = Val(stored).trackIds
                        \o NewInOrder(S, Val(stored).trackIds)
               /\ PlaylistFindById(script.playlists, Val(stored).id) # None
                    => PlaylistFindById(script'.playlists, Val(stored).id)
                         = Some(f.result)
               /\ Len(script'.playlists) = Len(script.playlists)
          ELSE /\ f.result.id \notin KnownPlaylistIds
               /\ f.result.userId = f.username
               /\ f.result.name = f.playlistName
               /\ f.result.trackIds = NewInOrder(S, <<>>)
               /\ script'.playlists = Append(script.playlists, f.result)]_vars

\* The script merged a file of two tracks into a stored playlist that held the
\* second of them: the stored id stayed first and the other one followed.
C17_Witness ==
  /\ merge # None
  /\ Val(merge).stored # None
  /\ Len(Val(merge).sourceTracks) = 2
  /\ Val(merge).sourceTracks[1].track_name = "starlight"
  /\ Val(merge).sourceTracks[1].artist = "muse"
  /\ Val(merge).sourceTracks[2].track_name = "new born"
  /\ Val(Val(merge).stored).trackIds = <<1>>
  /\ Len(Val(merge).result.trackIds) = 2
  /\ Val(merge).result.trackIds[1] = 1

----------------------------------------------------------------------------
(* Ownership in the answers *)

ReadRoutes == {"GET /playlists/:id", "GET /playlists/:id/download"}

\* The codes of the answers given before the playlist is looked at.
BodyErrors ==
  {"VALIDATION_ERROR", "INVALID_TRACKS", "TRACK_NOT_FOUND", "DUPLICATE_PLAYLIST"}

\* C18: on the update, delete, add-tracks and remove-track endpoints a
\* request by a non-owner of a stored playlist changes nothing, is answered
\* 404 PLAYLIST_NOT_FOUND unless its body is rejected, and the same request
\* sent next for an id that is not stored gets the same answer in every
\* field; the two read endpoints answer a non-owner 403 FORBIDDEN and a
\* missing id 404 PLAYLIST_NOT_FOUND.
C18_NonOwnerLooksMissing ==
  [][/\ (res'.route \in MutatingRoutes /\ NonOwner(playlists, res')) =>
          /\ playlists' = playlists
          /\ ~res'.wrotePlaylists
          /\ res'.code \in BodyErrors \cup {"PLAYLIST_NOT_FOUND"}
          /\ res'.code = "PLAYLIST_NOT_FOUND" => res'.status = 404
     /\ (/\ res.route \in MutatingRoutes
         /\ NonOwner(playlists, res)
         /\ res'.route = res.route
         /\ res'.req = [res.req EXCEPT !.id = GhostId]) =>
          [res' EXCEPT !.req = res.req] = res
     /\ (res'.route \in ReadRoutes /\ NonOwner(playlists, res')) =>
          (res'.status = 403 /\ res'.code = "FORBIDDEN" /\ res'.data = None)
     /\ (res'.route \in ReadRoutes /\ Target(playlists, res') = None) =>
          (res'.status = 404 /\ res'.code = "PLAYLIST_NOT_FOUND"
             /\ res'.data = None)]_vars

\* A non-owner asked to remove a track from a playlist that holds it: the
\* answer was 404 PLAYLIST_NOT_FOUND and the track is still there.
C18_Witness ==
  /\ res.route = "DELETE /playlists/:id/tracks/:trackId"
  /\ NonOwner(playlists, res)
  /\ res.status = 404
  /\ res.code = "PLAYLIST_NOT_FOUND"
  /\ Val(Target(playlists, res)).trackIds = <<1>>
  /\ res.req.trackId = 1

----------------------------------------------------------------------------
(* Playlist ZIP download *)

ZipStep ==
  /\ files' = files /\ playlists' = playlists
  /\ res'.route = "GET /playlists/:id/download"

\* C19: the ZIP download of an owned playlist fails only when the playlist
\* has no tracks; otherwise the archive holds, in playlist order and numbered
\* 1, 2, ... without gaps, exactly the playlist's tracks whose file the path
\* resolver finds, which are the tracks the stream endpoint serves.
C19_ZipArchivesResolvable ==
  [][ZipStep =>
       LET playlist == Val(Target(playlists, res'))
           found == TrackFindByIds(tracks, playlist.trackIds)
           served == SelectSeq(found, LAMBDA t : Resolvable(files, t))
           entries == Val(res'.data).entries
       IN /\ res'.status \in {200, 400}
          /\ res'.status = 400 <=> Len(playlist.trackIds) = 0
          /\ res'.status = 200 =>
               /\ Len(entries) = Len(served)
               /\ \A i \in 1..Len(entries) :
                    /\ entries[i].id = served[i].id
                    /\ entries[i].name[1] = i]_vars

----------------------------------------------------------------------------
(* Transfers *)

Open(fd) == \E h \in handles : h.fd = fd

\* C20: every descriptor opened by a stream or download request is closed
\* again at some later time, whether the transfer completes, a read fails or
\* the client disconnects.
C20_HandleReleased ==
  \A fd \in 1..MaxHandles : Open(fd) ~> ~Open(fd)

----------------------------------------------------------------------------
(* Revocation *)

RefreshRoute == "POST /auth/refresh"

EntriesOf(bl, tokenId) == {i \in 1..Len(bl) : bl[i].tokenId = tokenId}

\* C21: once POST /auth/logout has revoked a refresh token, no later
\* POST /auth/refresh answers 200 (an access token) for it, whatever sweeps
\* of the blocklist and whatever passage of time come in between.
C21_RevokedNeverRefreshed ==
  [][(res'.route = RefreshRoute /\ blocklist' = blocklist /\ now' = now
      /\ res'.status = 200)
       => res'.req.refreshToken.jti \notin revoked]_vars

\* A revoked token whose blocklist entry the sweep has removed is refused as
\* expired.
C21_Witness ==
  /\ res.route = RefreshRoute
  /\ res.code = "REFRESH_TOKEN_EXPIRED"
  /\ res.req.refreshToken.jti \in revoked
  /\ EntriesOf(blocklist, res.req.refreshToken.jti) = {}

----------------------------------------------------------------------------
(* The blocklist file *)

SweepRoute == "cleanupExpiredEntries"

SweepStep == res'.route = SweepRoute /\ now' = now

Unexpired(bl, time) == SelectSeq(bl, LAMBDA entry : ~(entry.expiresAt <= time))

\* C22: the blocklist grows only by one appended entry of POST /auth/logout
\* and shrinks only in the sweep; the sweep removes exactly the entries whose
\* expiresAt is not after the current time, keeps the others in their order,
\* and writes the file only when it removed at least one entry.
C22_BlocklistAppendAndSweep ==
  [][/\ Len(blocklist') > Len(blocklist)
          => /\ res'.route = "POST /auth/logout"
             /\ Len(blocklist') = Len(blocklist) + 1
             /\ SubSeq(blocklist', 1, Len(blocklist)) = blocklist
             /\ blocklist'[Len(blocklist')].tokenId =
                  res'.req.refreshToken.jti
     /\ Len(blocklist') < Len(blocklist) => SweepStep
     /\ Len(blocklist') = Len(blocklist) => blocklist' = blocklist
     /\ SweepStep
          => /\ blocklist' = Unexpired(blocklist, now)
             /\ res'.data.wrote <=> Len(blocklist') < Len(blocklist)]_vars

\* A sweep that removed an expired entry and kept an unexpired one.
C22_Witness ==
  /\ res.route = SweepRoute
  /\ res.data.wrote
  /\ Len(blocklist) >= 1
  /\ \A i \in 1..Len(blocklist) : blocklist[i].expiresAt > now

----------------------------------------------------------------------------
(* The track collection under the server's operations *)

ImportRoute == "POST /tracks/import"

\* C23: under the server's operations a stored track is never removed and
\* none of its fields, id included, changes, and no two stored tracks share
\* an id.
C23_TracksMonotone ==
  /\ [](\A i, j \in 1..Len(tracks) : tracks[i].id = tracks[j].id => i = j)
  /\ [][\A i \in 1..Len(tracks) :
          \E j \in 1..Len(tracks') : tracks'[j] = tracks[i]]_vars

\* A second track stored by an import beside the first one.
C23_Witness ==
  /\ Len(tracks) = 2
  /\ res.route = ImportRoute
  /\ res.status = 201
  /\ res.wroteTracks

----------------------------------------------------------------------------
(* Loads and saves of a repository operation *)

StoreCalls == {"trackStore.addTrack", "trackStore.addTracks"}

\* C24: a repository operation loads its backing file exactly once and then
\* saves it at most once; trackStore.addTrack reads tracks.json once per call.
C24_OneLoadPerOperation ==
  res.route \in StoreCalls => res.data.loads = 1 /\ res.data.saves <= 1

----------------------------------------------------------------------------
(* Concurrent imports of one track *)

\* The stored tracks of the artist and track name of an import request.
StoredFor(ts, req) ==
  {i \in 1..Len(ts) : SameArtistAndName(ts[i], req.artist, req.trackName)}

\* An import request suspended at its download resumes, persists and answers.
ImportPersistStep ==
  /\ Len(imports') < Len(imports)
  /\ res'.route = ImportRoute
  /\ res'.status = 201

\* C25: when import requests of one (artist, trackName) have all passed the
\* duplicate check before any of them persists, one track record is stored
\* for the pair and every one of the requests answers with the id of that
\* record.
C25_ConcurrentImportsOneRecord ==
  /\ [](\A i, j \in 1..Len(tracks) :
          SameArtistAndName(tracks[i], tracks[j].artist, tracks[j].trackName)
            => i = j)
  /\ [][ImportPersistStep
         => /\ Cardinality(StoredFor(tracks', res'.req)) = 1
            /\ \A i \in StoredFor(tracks', res'.req) :
                 Val(res'.data).id = tracks'[i].id
            /\ StoredFor(tracks, res'.req) # {}
                 => tracks' = tracks /\ ~res'.wroteTracks]_vars

\* The second of two concurrent imports has answered with the record the
\* first one stored, while no third request is suspended.
C25_Witness ==
  /\ res.route = ImportRoute
  /\ res.status = 201
  /\ ~res.wroteTracks
  /\ imports = <<>>
  /\ \E i \in 1..Len(tracks) : tracks[i] = Val(res.data)

----------------------------------------------------------------------------
(* A failed download beside another import of the same track *)

\* An import request suspended at its download resumes in the catch branch.
ImportFailStep ==
  /\ Len(imports') < Len(imports)
  /\ res'.route = ImportRoute
  /\ res'.status = 502

\* C26: an import request whose download fails stores no track record and
\* removes the audio file of no track another import request has stored.
C26_FailedImportKeepsFiles ==
  [][ImportFailStep
       => /\ tracks' = tracks
          /\ \A i \in 1..Len(tracks) :
               tracks[i].filePath \in DOMAIN files
                 => tracks[i].filePath \in DOMAIN files']_vars

----------------------------------------------------------------------------
(* Two source files of one playlist *)

\* The script merges a second file of the run into the stored playlist the
\* file before it was merged into, a playlist the script had loaded.
SecondFileStep ==
  /\ MergeStep
  /\ merge # None
  /\ Val(merge).stored # None
  /\ Val(merge').stored = Val(merge).stored
  /\ <<Val(merge).username, Val(merge).playlistName>> \in script.done
  /\ PlaylistFindById(script.playlists, Val(merge).result.id) # None

\* C27: when two source files of one user match the same stored playlist in
\* one run of the script, the playlist the script holds after the second
\* file, which is the one it saves at the end, contains the track ids of
\* both files besides the ids it had before.
C27_BothFilesMerged ==
  [][/\ SecondFileStep
          => LET p == Val(PlaylistFindById(script'.playlists,
                                           Val(merge).result.id))
             IN /\ Range(Val(merge).result.trackIds) \subseteq Range(p.trackIds)
                /\ Range(Val(merge').result.trackIds) \subseteq Range(p.trackIds)
     /\ (script.pc = "savePlaylists" /\ script'.pc = "idle")
          => playlists' = script.playlists]_vars

----------------------------------------------------------------------------
(* The script's final saves *)

\* C28: what the server stored in tracks.json and playlists.json between the
\* script's initial load and its final save is still in the files after the
\* save: every stored track, and every stored playlist with its track ids.
C28_ScriptKeepsServerMutations ==
  [][/\ (script.pc = "files" /\ script'.pc = "savePlaylists")
          => \A i \in 1..Len(tracks) :
               \E j \in 1..Len(tracks') : tracks'[j] = tracks[i]
     /\ (script.pc = "savePlaylists" /\ script'.pc = "idle")
          => \A i \in 1..Len(playlists) :
               \E j \in 1..Len(playlists') :
                 /\ playlists'[j].id = playlists[i].id
                 /\ Range(playlists[i].trackIds)
                      \subseteq Range(playlists'[j].trackIds)]_vars

----------------------------------------------------------------------------
(* Adding a list of tracks *)

\* POST /playlists/:id/tracks with a non-empty trackIds list is answered.
AddListStep ==
  /\ res'.route = "POST /playlists/:id/tracks"
  /\ res'.req.trackIds # None
  /\ Len(Val(res'.req.trackIds)) > 0

\* C29: POST /playlists/:id/tracks with a trackIds list is all-or-nothing.
\* If any listed id is not a stored track the answer is 400 INVALID_TRACKS
\* and the playlists file is unchanged; otherwise every listed id is in the
\* caller's playlist afterwards (a playlist that is missing or another
\* user's answers 404 and the file is unchanged).
C29_AddListAllOrNothing ==
  [][AddListStep =>
       LET L == Val(res'.req.trackIds)
       IN IF \E k \in 1..Len(L) : L[k] \notin StoredTrackIds
          THEN /\ res'.status = 400
               /\ res'.code = "INVALID_TRACKS"
               /\ playlists' = playlists
          ELSE IF Target(playlists, res') # None /\ ~NonOwner(playlists, res')
          THEN /\ res'.status = 200
               /\ Range(L) \subseteq
                    Range(Val(Target(playlists', res')).trackIds)
          ELSE /\ res'.status = 404
               /\ playlists' = playlists]_vars

\* A list of a stored id followed by an id of no track was refused for the
\* caller's own playlist, which holds neither id.
C29_Witness ==
  /\ res.route = "POST /playlists/:id/tracks"
  /\ res.code = "INVALID_TRACKS"
  /\ Len(Val(res.req.trackIds)) = 2
  /\ Val(res.req.trackIds)[1] \in StoredTrackIds
  /\ Val(res.req.trackIds)[2] \notin StoredTrackIds
  /\ Target(playlists, res) # None
  /\ Val(Target(playlists, res)).userId = res.req.userId
  /\ Val(Target(playlists, res)).trackIds = <<>>

----------------------------------------------------------------------------
(* The frame of playlistStore.update *)

\* A call of playlistStore.update that found the playlist has returned.
StoreUpdateStep ==
  /\ res'.route = "playlistStore.update"
  /\ res'.data # None

\* C30: a successful playlistStore.update leaves id, userId and createdAt of
\* the targeted playlist as they were, also when updates carries those keys,
\* and leaves every other playlist of the document unchanged and in its
\* position.
C30_UpdateFrame ==
  [][StoreUpdateStep =>
       LET index == FindIndex(playlists, LAMBDA p : p.id = res'.req.id)
       IN /\ index # 0
          /\ Len(playlists') = Len(playlists)
          /\ playlists'[index].id = playlists[index].id
          /\ playlists'[index].userId = playlists[index].userId
          /\ playlists'[index].createdAt = playlists[index].createdAt
          /\ \A i \in 1..Len(playlists) :
               i # index => playlists'[i] = playlists[i]]_vars

\* An update whose updates object carried id, userId and createdAt renamed
\* the first of two stored playlists.
C30_Witness ==
  /\ res.route = "playlistStore.update"
  /\ res.data # None
  /\ res.req.updates.id # None
  /\ Len(playlists) = 2
  /\ playlists[1].id = res.req.id
  /\ playlists[1].name = "jazz"
  /\ playlists[2].name = "mix"

====
